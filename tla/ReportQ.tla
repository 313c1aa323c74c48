------------------------------ MODULE ReportQ ------------------------------
(***************************************************************************)
(* cCSSReportQ: report() queues events, one thread takes them out and      *)
(* signals each to the reporters of its list, then deletes it.  Delivery   *)
(* can be suspended and resumed, report() can be told to flush, terminate  *)
(* stops the thread and waits for it, and init starts another one.         *)
(*                                                                         *)
(* mLock is held for the whole of each public operation and, by the        *)
(* thread, from the top of its loop to the removal of an event or to a     *)
(* wait: each of those is one action.  A cCondition is a manual-reset      *)
(* event, which its wait() resets before it releases mLock.                *)
(***************************************************************************)
EXTENDS Integers, SequencesExt

CONSTANTS
  Clients,     \* threads that report, suspend, resume and edit the list
  Events,      \* cCSSEvent objects, each reported at most once
  Reporters,
  PriorityOf,  \* priority of each reporter
  MaxInits,    \* bound on the number of calls of init
  MaxCalls,    \* bound on the number of other calls
  NULL

ASSUME ReportQAssumption ==
  /\ NULL \notin Events \cup Clients \cup {"EventThread"}
  /\ PriorityOf \in [Reporters -> {"Low", "Normal", "High"}]
  /\ MaxInits \in Nat
  /\ MaxCalls \in Nat

VARIABLES
  eventQueue,
  isInFlushMode,
  terminateThread,
  suspended,
  mpNewEvent,         \* whether the condition's event is signalled
  mpReportSuspended,  \* the same for the other condition
  pc,                 \* where the event thread is
  currEvent,
  reporters,          \* the ReporterList of the events
  listLock,           \* its lock: NULL or "EventThread"
  cursor,             \* next reporter to signal
  joining,            \* terminate() is waiting in Join
  inits, calls,       \* calls made so far
  \* History variables.
  held,               \* suspensions each client has yet to resume
  accepted,           \* events in the order report() queued them
  delivered,          \* events signalled to each reporter
  deletes,            \* number of times each event was deleted
  abandoned,          \* events that init() dropped from the queue
  slips,              \* events taken from the queue while suspended
  releases            \* signals of mpReportSuspended

queue   == <<eventQueue, isInFlushMode, terminateThread, suspended>>
signals == <<mpNewEvent, mpReportSuspended>>
thread  == <<pc, currEvent, cursor>>
list    == <<reporters, listLock>>
history == <<accepted, delivered, deletes, abandoned, slips>>
vars == <<queue, signals, thread, list, joining, inits, calls, held, history,
          releases>>

ReporterList == INSTANCE ReporterList

-----------------------------------------------------------------------------
Init ==
  /\ eventQueue = <<>>
  /\ isInFlushMode = FALSE
  /\ terminateThread = FALSE
  /\ suspended = 0
  /\ mpNewEvent = FALSE
  /\ mpReportSuspended = FALSE
  /\ pc = "none"
  /\ currEvent = NULL
  /\ reporters = <<>>
  /\ listLock = NULL
  /\ cursor = 0
  /\ joining = FALSE
  /\ inits = 0
  /\ calls = 0
  /\ held = [c \in Clients |-> 0]
  /\ accepted = <<>>
  /\ delivered = [r \in Reporters |-> <<>>]
  /\ deletes = [e \in Events |-> 0]
  /\ abandoned = {}
  /\ slips = 0
  /\ releases = 0

\* The queue can be called once init() has made its conditions.
Call ==
  /\ inits > 0
  /\ calls < MaxCalls
  /\ calls' = calls + 1

\* DoInit: by the owner, before the first use or after terminate().  It
\* clears the queue without deleting what terminate() left in it, and does
\* not touch suspended.
DoInit ==
  /\ inits < MaxInits
  /\ pc = "none" /\ ~joining
  /\ inits' = inits + 1
  /\ abandoned' = abandoned \cup ToSet(eventQueue)
  /\ eventQueue' = <<>>
  /\ mpNewEvent' = FALSE
  /\ mpReportSuspended' = FALSE
  /\ terminateThread' = FALSE
  /\ isInFlushMode' = FALSE
  /\ pc' = "top"
  /\ UNCHANGED <<suspended, currEvent, cursor, list, joining, calls, held,
                 accepted, delivered, deletes, slips, releases>>

\* report(): queue the event, or delete it in flush mode.
report(e) ==
  /\ Call
  /\ deletes[e] = 0 /\ ~Contains(accepted, e)
  /\ IF isInFlushMode
     THEN /\ deletes' = [deletes EXCEPT ![e] = @ + 1]
          /\ UNCHANGED <<eventQueue, mpNewEvent, accepted>>
     ELSE /\ eventQueue' = Append(eventQueue, e)
          /\ accepted' = Append(accepted, e)
          /\ mpNewEvent' = TRUE
          /\ UNCHANGED deletes
  /\ UNCHANGED <<isInFlushMode, terminateThread, suspended, mpReportSuspended,
                 thread, list, joining, inits, held, delivered, abandoned,
                 slips, releases>>

\* start() and stop() leave and enter flush mode.
SetFlushMode(value) ==
  /\ Call
  /\ isInFlushMode' = value
  /\ UNCHANGED <<eventQueue, terminateThread, suspended, signals, thread, list,
                 joining, inits, held, history, releases>>

start == SetFlushMode(FALSE)
stop  == SetFlushMode(TRUE)

suspend(c) ==
  /\ Call
  /\ suspended' = suspended + 1
  /\ held' = [held EXCEPT ![c] = @ + 1]
  /\ UNCHANGED <<eventQueue, isInFlushMode, terminateThread, signals, thread,
                 list, joining, inits, history, releases>>

\* Mutant of resume: the thread is not woken.
resume_Silent(c) ==
  /\ held[c] > 0
  /\ held' = [held EXCEPT ![c] = @ - 1]
  /\ suspended' = IF suspended > 0 THEN suspended - 1 ELSE 0
  /\ UNCHANGED <<eventQueue, isInFlushMode, terminateThread, signals, thread,
                 list, joining, inits, calls, history, releases>>

\* A client resumes what it suspended, as cSuspendReporting does.
resume(c) ==
  /\ held[c] > 0
  /\ held' = [held EXCEPT ![c] = @ - 1]
  /\ suspended' = IF suspended > 0 THEN suspended - 1 ELSE 0
  /\ mpReportSuspended' = (mpReportSuspended \/ suspended' = 0)
  /\ releases' = IF suspended' = 0 THEN releases + 1 ELSE releases
  /\ UNCHANGED <<eventQueue, isInFlushMode, terminateThread, mpNewEvent,
                 thread, list, joining, inits, calls, history>>

\* Mutant of terminate: a thread waiting for an event is not woken.
terminate_OnlySuspended ==
  /\ inits > 0
  /\ pc # "none" /\ ~joining
  /\ terminateThread' = TRUE
  /\ suspended' = 0
  /\ mpReportSuspended' = TRUE
  /\ joining' = TRUE
  /\ UNCHANGED <<eventQueue, isInFlushMode, mpNewEvent, thread, list, inits,
                 calls, held, history, releases>>

\* terminate(), by the owner: its locked part, then Join.
terminate ==
  /\ inits > 0
  /\ pc # "none" /\ ~joining
  /\ terminateThread' = TRUE
  /\ suspended' = 0
  /\ mpReportSuspended' = TRUE
  /\ mpNewEvent' = TRUE
  /\ releases' = releases + 1
  /\ joining' = TRUE
  /\ UNCHANGED <<eventQueue, isInFlushMode, thread, list, inits, calls, held,
                 history>>

JoinReturns ==
  /\ joining
  /\ pc = "finished"
  /\ joining' = FALSE
  /\ pc' = "none"
  /\ UNCHANGED <<queue, signals, currEvent, cursor, list, inits, calls, held,
                 history, releases>>

\* Mutant of EditList: the list is edited while an event is being signalled.
EditList_NoLock(edited) ==
  /\ Call
  /\ reporters' = edited
  /\ UNCHANGED <<queue, signals, thread, listLock, joining, inits, held,
                 history, releases>>

\* add() and remove() of the list, which wait for its lock.
EditList(edited) ==
  /\ Call
  /\ listLock = NULL
  /\ reporters' = edited
  /\ UNCHANGED <<queue, signals, thread, listLock, joining, inits, held,
                 history, releases>>

RegisterReporter(r) ==
  ~Contains(reporters, r) /\ EditList(ReporterList!Added(reporters, r))
UnregisterReporter(r) ==
  Contains(reporters, r) /\ EditList(ReporterList!Removed(reporters, r))

-----------------------------------------------------------------------------
\* The event thread: EventThread::ThreadProc.

\* Take the first event, if there is one, and release mLock.
PopEvent ==
  IF eventQueue = <<>>
  THEN /\ pc' = "top"
       /\ UNCHANGED <<eventQueue, currEvent, slips>>
  ELSE /\ pc' = "lockList"
       /\ currEvent' = Head(eventQueue)
       /\ eventQueue' = Tail(eventQueue)
       /\ slips' = IF suspended > 0 THEN slips + 1 ELSE slips

\* terminateThread is tested again after the waits.
CheckTerminate ==
  IF terminateThread
  THEN pc' = "finished" /\ UNCHANGED <<eventQueue, currEvent, slips>>
  ELSE PopEvent

\* Mutant of CheckSuspended: the queue does not look at suspended.
CheckSuspended_Never == CheckTerminate /\ UNCHANGED mpReportSuspended

CheckSuspended ==
  IF suspended > 0
  THEN /\ mpReportSuspended' = FALSE
       /\ pc' = "waitSuspended"
       /\ UNCHANGED <<eventQueue, currEvent, slips>>
  ELSE CheckTerminate /\ UNCHANGED mpReportSuspended

ThreadUnchanged ==
  UNCHANGED <<isInFlushMode, terminateThread, suspended, cursor, list, joining,
              inits, calls, held, accepted, delivered, deletes, abandoned,
              releases>>

\* The top of the loop, when the queue is empty and when it is not.
TopEmpty ==
  /\ pc = "top"
  /\ eventQueue = <<>>
  /\ IF terminateThread
     THEN pc' = "finished" /\ UNCHANGED mpNewEvent
     ELSE pc' = "waitNewEvent" /\ mpNewEvent' = FALSE
  /\ UNCHANGED <<eventQueue, currEvent, slips, mpReportSuspended>>
  /\ ThreadUnchanged

TopEvents ==
  /\ pc = "top"
  /\ eventQueue # <<>>
  /\ CheckSuspended
  /\ UNCHANGED mpNewEvent
  /\ ThreadUnchanged

\* mpNewEvent->wait returns, with mLock held again.
WakeNewEvent ==
  /\ pc = "waitNewEvent"
  /\ mpNewEvent
  /\ CheckSuspended
  /\ UNCHANGED mpNewEvent
  /\ ThreadUnchanged

\* mpReportSuspended->wait returns; suspended is not looked at again.
WakeSuspended ==
  /\ pc = "waitSuspended"
  /\ mpReportSuspended
  /\ CheckTerminate
  /\ UNCHANGED signals
  /\ ThreadUnchanged

\* Lock the event's list of reporters ...
LockReporters ==
  /\ pc = "lockList"
  /\ listLock = NULL
  /\ listLock' = "EventThread"
  /\ cursor' = 1
  /\ pc' = "signal"
  /\ UNCHANGED <<queue, signals, currEvent, reporters, joining, inits, calls,
                 held, history, releases>>

\* ... signal the event to one after the other ...
SignalReporter ==
  /\ pc = "signal"
  /\ cursor <= Len(reporters)
  /\ delivered' = [delivered EXCEPT ![reporters[cursor]] = Append(@, currEvent)]
  /\ cursor' = cursor + 1
  /\ UNCHANGED <<queue, signals, pc, currEvent, list, joining, inits, calls,
                 held, accepted, deletes, abandoned, slips, releases>>

\* ... unlock the list ...
UnlockReporters ==
  /\ pc = "signal"
  /\ cursor = Len(reporters) + 1
  /\ listLock' = NULL
  /\ cursor' = 0
  /\ pc' = "delete"
  /\ UNCHANGED <<queue, signals, currEvent, reporters, joining, inits, calls,
                 held, history, releases>>

\* Mutant of DeleteEvent: the event is never freed.
DeleteEvent_Leaks ==
  /\ pc = "delete"
  /\ currEvent' = NULL
  /\ pc' = "top"
  /\ UNCHANGED <<queue, signals, cursor, list, joining, inits, calls, held,
                 history, releases>>

\* ... and delete the event.
DeleteEvent ==
  /\ pc = "delete"
  /\ deletes' = [deletes EXCEPT ![currEvent] = @ + 1]
  /\ currEvent' = NULL
  /\ pc' = "top"
  /\ UNCHANGED <<queue, signals, cursor, list, joining, inits, calls, held,
                 accepted, delivered, abandoned, slips, releases>>

Thread ==
  \/ TopEmpty \/ TopEvents \/ WakeNewEvent \/ WakeSuspended
  \/ LockReporters \/ SignalReporter \/ UnlockReporters \/ DeleteEvent

ClientCall ==
  \/ \E e \in Events : report(e)
  \/ \E c \in Clients : suspend(c) \/ resume(c)
  \/ \E r \in Reporters : RegisterReporter(r) \/ UnregisterReporter(r)
  \/ start \/ stop

Owner == DoInit \/ terminate \/ JoinReturns

Next == Thread \/ ClientCall \/ Owner

Spec == Init /\ [][Next]_vars

\* The thread runs, signal() returns, and whoever suspends resumes.
FairSpec ==
  /\ Spec
  /\ WF_vars(Thread)
  /\ WF_vars(JoinReturns)
  /\ \A c \in Clients : WF_vars(resume(c))

-----------------------------------------------------------------------------
TypeOK ==
  /\ eventQueue \in Seq(Events)
  /\ isInFlushMode \in BOOLEAN /\ terminateThread \in BOOLEAN
  /\ suspended \in Nat
  /\ mpNewEvent \in BOOLEAN /\ mpReportSuspended \in BOOLEAN
  /\ pc \in {"none", "top", "waitNewEvent", "waitSuspended", "lockList",
             "signal", "delete", "finished"}
  /\ currEvent \in Events \cup {NULL}
  /\ reporters \in Seq(Reporters)
  /\ listLock \in {NULL, "EventThread"}
  /\ cursor \in 0 .. Len(reporters) + 1
  /\ joining \in BOOLEAN

\* Where an event that report() took can be.
Places(e) ==
  {p \in {"queued", "current", "deleted", "abandoned"} :
     CASE p = "queued"  -> Contains(eventQueue, e)
       [] p = "current" -> currEvent = e
       [] p = "deleted" -> deletes[e] = 1
       [] OTHER         -> e \in abandoned}

\* Every event that report() took is in one place: queued, being signalled,
\* deleted exactly once, or dropped by a new init(); none leaks or is deleted
\* under a reader.
EventsAccounted ==
  /\ TypeOK
  /\ \A e \in Events :
       /\ deletes[e] <= 1
       /\ Contains(accepted, e) => Cardinality(Places(e)) = 1

\* Each reporter is signalled a subsequence of what report() accepted, in that
\* order and without repetition, whatever suspends, flushes and restarts.  And
\* "if an object tries to unregister its reporter, it will be allowed to do so
\* only after this event has been signaled": the registered reporters before the
\* cursor are exactly those that have the event, so none is skipped and none is
\* signalled twice.  And "the list is always kept sorted by priority. Elements
\* must be unique.": of that holds, in whatever order reporters come and go, that
\* Normal ones get an event before Low ones.
SignalledInOrder ==
  /\ \A r \in Reporters : \A i, j \in DOMAIN delivered[r] :
       i < j => \E m, n \in DOMAIN accepted :
                  m < n /\ accepted[m] = delivered[r][i] /\ accepted[n] = delivered[r][j]
  /\ pc = "signal" =>
       \A i \in DOMAIN reporters :
         i < cursor <=> /\ delivered[reporters[i]] # <<>>
                        /\ Last(delivered[reporters[i]]) = currEvent
  /\ ReporterList!Sorted(reporters)

\* An event leaves the queue while delivery is suspended at most once for each
\* time the suspension was lifted: suspend() again before the thread wakes.
SuspensionHolds == slips <= releases

\* terminate() returns, if every suspension is resumed.
TerminationCompletes == joining ~> ~joining

\* An event accepted is signalled and deleted, unless terminate() comes first.
EventsServed ==
  \A e \in Events :
    Contains(eventQueue, e) ~> (deletes[e] = 1 \/ terminateThread)

\* A queue serves its events, and ends when it is told to.
QueueServes == EventsServed /\ TerminationCompletes
=============================================================================
