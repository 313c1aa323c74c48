---------------------------- MODULE DualReportQ ----------------------------
(***************************************************************************)
(* cCSSDualReportQ: a cCSSReportQ (the variables of ReportQ) whose thread  *)
(* signals the High and Normal reporters of an event itself and hands the  *)
(* event to a second cCSSReportQ, mReportQ, for the Low ones.              *)
(*                                                                         *)
(* signalEvent() is passed the pointer by value, so what it sets to NULL   *)
(* is a copy: ThreadProc deletes every event after the call, also one that *)
(* signalEvent() deleted or handed over.  From then on nothing is promised *)
(* about memory; the model is the code up to there.                        *)
(***************************************************************************)
EXTENDS ReportQ

VARIABLES
  \* mReportQ, which nobody else calls: it is never suspended or in flush mode.
  eventQueue2, isInFlushMode2, terminateThread2, suspended2,
  mpNewEvent2, mpReportSuspended2,
  pc2, currEvent2, cursor2,
  joining2, inits2,
  owner        \* "idle", or between the halves of initDual() or terminate()

first == <<queue, signals, thread, joining, inits>>

flags2 == <<isInFlushMode2, terminateThread2, suspended2, mpReportSuspended2>>
second ==
  <<eventQueue2, flags2, mpNewEvent2, pc2, currEvent2, cursor2, joining2, inits2>>

dualVars == <<vars, second, owner>>

\* The events, their reporters, the callers and the history are the same.
Second == INSTANCE ReportQ WITH
  eventQueue <- eventQueue2, terminateThread <- terminateThread2,
  isInFlushMode <- isInFlushMode2, suspended <- suspended2,
  mpNewEvent <- mpNewEvent2, mpReportSuspended <- mpReportSuspended2,
  pc <- pc2, currEvent <- currEvent2, cursor <- cursor2,
  joining <- joining2, inits <- inits2

\* Where the Low reporters of the list begin.
FirstLow == ReporterList!FirstOf(reporters, "Low")

DualInit == Init /\ Second!Init /\ owner = "idle"

-----------------------------------------------------------------------------
\* initDual() starts the second queue, then the first; terminate() ends them in
\* the same order.

InitSecond ==
  /\ owner = "idle" /\ pc = "none" /\ ~joining
  /\ inits < MaxInits
  /\ Second!DoInit
  /\ owner' = "initializing"
  /\ UNCHANGED first

InitFirst ==
  /\ owner = "initializing"
  /\ DoInit
  /\ owner' = "idle"
  /\ UNCHANGED second

TerminateSecond ==
  /\ owner = "idle" /\ pc # "none" /\ ~joining
  /\ Second!terminate
  /\ owner' = "terminating"
  /\ UNCHANGED first

SecondJoined == Second!JoinReturns /\ UNCHANGED <<first, owner>>

TerminateFirst ==
  /\ owner = "terminating" /\ ~joining2
  /\ terminate
  /\ owner' = "idle"
  /\ UNCHANGED second

FirstJoined == JoinReturns /\ UNCHANGED <<second, owner>>

DualOwner ==
  \/ InitSecond \/ InitFirst
  \/ TerminateSecond \/ SecondJoined \/ TerminateFirst \/ FirstJoined

-----------------------------------------------------------------------------
\* The first queue's thread is ReportQ's but for what signalEvent() does, under
\* the lock of the list that ThreadProc has taken.

SignalNormalHigh == cursor < FirstLow /\ SignalReporter /\ UNCHANGED second

SignalEventReturns ==
  /\ pc = "signal"
  /\ cursor = FirstLow
  /\ listLock' = NULL
  /\ cursor' = 0
  /\ pc' = "delete"
  /\ UNCHANGED <<queue, signals, currEvent, reporters, joining, inits, calls,
                 held, accepted, delivered, abandoned, slips, releases>>

\* mReportQ.report(event): an event with Low reporters changes queues ...
HandOver ==
  /\ FirstLow <= Len(reporters)
  /\ SignalEventReturns
  /\ eventQueue2' = Append(eventQueue2, currEvent)
  /\ mpNewEvent2' = TRUE
  /\ UNCHANGED <<deletes, flags2, pc2, currEvent2, cursor2, joining2, inits2>>

\* ... and any other is deleted.
DeleteInSignalEvent ==
  /\ FirstLow > Len(reporters)
  /\ SignalEventReturns
  /\ deletes' = [deletes EXCEPT ![currEvent] = @ + 1]
  /\ UNCHANGED second

FirstThread ==
  \/ /\ \/ TopEmpty \/ TopEvents \/ WakeNewEvent \/ WakeSuspended
        \/ LockReporters \/ DeleteEvent
     /\ UNCHANGED second
  \/ SignalNormalHigh \/ HandOver \/ DeleteInSignalEvent

\* The events of the second queue have mSignalLowPriorityOnly set.
LockForLow ==
  /\ pc2 = "lockList"
  /\ listLock = NULL
  /\ listLock' = "EventThread"
  /\ cursor2' = FirstLow
  /\ pc2' = "signal"
  /\ UNCHANGED <<eventQueue2, flags2, mpNewEvent2, currEvent2, joining2, inits2,
                 reporters, calls, held, history, releases>>

SecondThread ==
  /\ \/ Second!TopEmpty \/ Second!TopEvents \/ Second!WakeNewEvent
     \/ LockForLow \/ Second!SignalReporter \/ Second!UnlockReporters
     \/ Second!DeleteEvent
  /\ UNCHANGED first

DualNext ==
  \/ ClientCall /\ UNCHANGED <<second, owner>>
  \/ (FirstThread \/ SecondThread) /\ UNCHANGED owner
  \/ DualOwner

DualSpec == DualInit /\ [][DualNext]_dualVars

-----------------------------------------------------------------------------
\* "mReportQ will delete the event when it is done.", "set the pointer to NULL to
\* avoid double-deletion": an event is deleted once, and not while a queue has it.
\* The code breaks it for every event that the first thread takes.
DeletedWhenDone ==
  \A e \in Events :
    /\ deletes[e] <= 1
    /\ Contains(eventQueue2, e) \/ currEvent2 = e => deletes[e] = 0
=============================================================================
