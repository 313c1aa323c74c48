-------------------------------- MODULE Parts --------------------------------
(***************************************************************************)
(* Parts of the library that have nothing to do with each other, side by   *)
(* side: a behaviour is one of TimerClock, or ThreadLife, or another of    *)
(* the modules below, and the variables of the others keep their initial   *)
(* values.                                                                 *)
(***************************************************************************)
EXTENDS TimerClock, FiniteSets

CONSTANTS
  NULL,
  Joiners, MaxRuns, MaxJoins,                        \* of ThreadLife
  Queues, Limited, Items, Consumers, Durations,      \* of TimedQueues
  MaximumTimeInQueue, QueueWidth, StartTime,
  MaxQueueTime, MaxQueueCalls, MaxEvents,
  Threads, ProcessOf, MaxValue, FirstValues,         \* of Tickets
  MaxOutlets, MaxRounds, MaxDeaths,
  Objects, Variables, PointerThreads, MaxPointerCalls,  \* of SmartPtr
  MaxMonitors,                                       \* of MonitorPVFC
  Keys, Elements,                                    \* of InstanceMap
  Instances, MaxLength, MaxVisits                    \* of InstanceList

VARIABLES
  part,
  \* Of ThreadLife.
  object, mSelfDestruct, isRunning, threadHandle, instances, threads, closes,
  joinerPc, waitsOn, joins, returned, threadMishaps,
  \* Of TimedQueues.
  time, queueLife, managedObjects, list, newStatus, queueNotEmpty, mQueueEvent,
  managerPc, managerAt, signals, nextWakeup, queueWakeup, wakeAt, due, events,
  consumers, held, gone, queueCalls, rings, sleptAt, snoozed, unjoined,
  takenRinging, queueMishaps,
  \* Of Tickets.
  file, ourTicketOutlet, outlets, bFirstReading, TicketNumber, lockTicketPad,
  ticketPc, pad, deaths, rounds, last, repeated, ticketMishaps,
  \* Of SmartPtr.
  p, crefs, life, todo, reads, writes, calls, mishaps,
  \* Of MonitorPVFC.
  mTerminate, mWaitEvent, monitorRuns, monitors, entry, stopping, window, exited,
  started, twice,
  \* Of InstanceMap and InstanceList.
  mMap, keyIteration, currentKey, visitedKeys, keptKeys,
  mList, iteration, current, visited, kept, disturbances

threadVars ==
  <<object, mSelfDestruct, isRunning, threadHandle, instances, threads, closes,
    joinerPc, waitsOn, joins, returned, threadMishaps>>
queueVars ==
  <<time, queueLife, managedObjects, list, newStatus, queueNotEmpty, mQueueEvent,
    managerPc, managerAt, signals, nextWakeup, queueWakeup, wakeAt, due, events,
    consumers, held, gone, queueCalls, rings, sleptAt, snoozed, unjoined,
    takenRinging, queueMishaps>>
ticketVars ==
  <<file, ourTicketOutlet, outlets, bFirstReading, TicketNumber, lockTicketPad,
    ticketPc, pad, deaths, rounds, last, repeated, ticketMishaps>>
pointerVars == <<p, crefs, life, todo, reads, writes, calls, mishaps>>
monitorVars ==
  <<mTerminate, mWaitEvent, monitorRuns, monitors, entry, stopping, window, exited,
    started, twice>>
mapVars ==
  <<mMap, keyIteration, currentKey, visitedKeys, keptKeys>>
listVars == <<mList, iteration, current, visited, kept, disturbances>>

Thread == INSTANCE ThreadLife WITH pc <- joinerPc, mishaps <- threadMishaps

Queue == INSTANCE TimedQueues WITH
  now <- time, life <- queueLife, pc <- managerPc, current <- managerAt,
  calls <- queueCalls, mishaps <- queueMishaps,
  Width <- QueueWidth, MaxTime <- MaxQueueTime, MaxCalls <- MaxQueueCalls

Ticket == INSTANCE Tickets WITH pc <- ticketPc, mishaps <- ticketMishaps

Pointer == INSTANCE SmartPtr WITH Threads <- PointerThreads, MaxCalls <- MaxPointerCalls

Monitor == INSTANCE MonitorPVFC WITH
  isRunning <- monitorRuns, threads <- monitors, MaxRuns <- MaxMonitors

Map == INSTANCE InstanceMap WITH
  iteration <- keyIteration, current <- currentKey, visited <- visitedKeys,
  kept <- keptKeys

List == INSTANCE InstanceList

ASSUME PartsAssumption ==
  IsFiniteSet(Joiners) /\ Ticket!Parameters /\ Pointer!Parameters /\ Map!Parameters

-----------------------------------------------------------------------------
PartsInit ==
  /\ part \in {"clock", "thread", "queues", "tickets", "pointers", "monitor", "map",
              "list"}
  /\ Init /\ (part # "clock" => now = 0)
  /\ Ticket!Init /\ (part # "tickets" => file = 0)
  /\ Thread!Init /\ Queue!Init /\ Pointer!Init /\ Monitor!Init /\ Map!Init /\ List!Init

\* The parts other than q keep their state.
Only(q) ==
  /\ part = q
  /\ part' = part
  /\ IF q = "clock" THEN TRUE ELSE UNCHANGED vars
  /\ IF q = "thread" THEN TRUE ELSE UNCHANGED threadVars
  /\ IF q = "queues" THEN TRUE ELSE UNCHANGED queueVars
  /\ IF q = "tickets" THEN TRUE ELSE UNCHANGED ticketVars
  /\ IF q = "pointers" THEN TRUE ELSE UNCHANGED pointerVars
  /\ IF q = "monitor" THEN TRUE ELSE UNCHANGED monitorVars
  /\ IF q = "map" THEN TRUE ELSE UNCHANGED mapVars
  /\ IF q = "list" THEN TRUE ELSE UNCHANGED listVars

PartsNext ==
  \/ Only("clock") /\ Next
  \/ Only("thread") /\ Thread!Next
  \/ Only("queues") /\ Queue!Next
  \/ Only("tickets") /\ Ticket!Next
  \/ Only("pointers") /\ Pointer!Next
  \/ Only("monitor") /\ Monitor!Next
  \/ Only("map") /\ Map!Next
  \/ Only("list") /\ List!Next

allVars ==
  <<part, vars, threadVars, queueVars, ticketVars, pointerVars,
    monitorVars, mapVars, listVars>>

PartsSpec == PartsInit /\ [][PartsNext]_allVars

-----------------------------------------------------------------------------
\* A thread's handle is closed once, never while a Join waits on it, and nothing is
\* left in gThreadInstances (HandlesClosedOnce of ThreadLife).
HandlesClosedOnce == Thread!HandlesClosedOnce

\* A Join that reports the end of a thread is right (of ThreadLife).
JoinMeansFinished == Thread!JoinMeansFinished

\* The timed queues lose no wakeup, of a consumer or of their manager, and do not
\* use an item that is gone (of TimedQueues).
ConsumersServed == Queue!ConsumersServed
UsedWhileAlive == Queue!UsedWhileAlive

\* Items ring in time, and not before they expire (of TimedQueues).
RingsInTime == Queue!RingsInTime

\* No ticket is issued twice (of Tickets).
TicketsUnique == Ticket!TicketsUnique

\* Counts are the references there are (of SmartPtr).
CountsAreReferences == Pointer!CountsAreReferences

\* A Stop of the monitor does not wait for its period, and ends it (of MonitorPVFC).
StopEndsMonitoring == Monitor!StopEndsMonitoring

\* An iteration over a map or a list that others change misses nothing that stays
\* and repeats nothing (of InstanceMap and InstanceList).
IterationsComplete == Map!MapIterationComplete /\ List!ListIterationComplete
=============================================================================
