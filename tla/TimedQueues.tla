----------------------------- MODULE TimedQueues -----------------------------
(***************************************************************************)
(* cTimedQueue, cLimitedTimeQueue and the one cTimerQueueManager, whose    *)
(* thread goes from queue to queue, rings for the items that have expired, *)
(* and sleeps until the next expiry or until a queue changes.              *)
(*                                                                         *)
(* Each method of a queue is a critical section of that queue and one      *)
(* action.  The list of queues is not protected.  A ring is an event for   *)
(* the event thread, which in a limited queue removes and destroys the     *)
(* item.  Times are true times; the code sees them modulo 2^Width.         *)
(***************************************************************************)
EXTENDS Integers, SequencesExt

CONSTANTS
  Queues, Limited,   \* the queues; those that are limited in time
  Items, Consumers,
  Durations,         \* lives given to items
  MaximumTimeInQueue, \* life of the items of a limited queue
  Width,             \* bits of a DWORD
  StartTime, MaxTime, \* bounds on the time explored
  MaxCalls,          \* bound on the calls of clients
  MaxEvents,         \* bound on the rings that wait for the event thread
  NULL

VARIABLES
  now,
  life,           \* of each queue: "unborn", "alive" or "dead"
  managedObjects, \* the queues that have joined
  list,           \* of each queue
  newStatus,      \* of each queue: "NoRing" or "ItemRinging"
  queueNotEmpty,  \* of each queue: the auto-reset event
  mQueueEvent,    \* the manager's auto-reset event
  pc,             \* the manager's: "evaluate", "notify", "sleep" or "wait"
  current,        \* the queue it is at
  signals,        \* the items found expired there, in the order of the list
  nextWakeup,     \* the long of ThreadProc
  queueWakeup,    \* what NextWakeup will return
  wakeAt,         \* when its wait ends, -1 for never
  due,            \* the true expiry of each item, -1 for an item not yet used
  events,         \* rings of limited queues, for the event thread
  consumers,      \* "idle", or what it waits for or was woken by
  held,           \* items that clients have taken out
  gone,           \* items destroyed
  calls,          \* made by clients
  \* History variables.
  rings,          \* number of rings of each item, up to 2
  sleptAt,        \* when the manager began to wait
  snoozed,        \* items given another expiry since then
  unjoined,       \* queues that left while the manager went around
  takenRinging,   \* items that clients took out after they had rung
  mishaps         \* "twice": an item was destroyed again
                  \* "dead queue": the manager was at a queue that is no more

manager == <<pc, current, signals, nextWakeup, queueWakeup, wakeAt, sleptAt>>
queues == <<life, managedObjects, list, newStatus, queueNotEmpty>>
items == <<due, held, gone, calls, snoozed, rings, takenRinging>>
vars == <<now, queues, mQueueEvent, manager, events, consumers, items,
          unjoined, mishaps>>

DWORD(x) == x % 2^Width
Half == 2^(Width - 1)
INFINITE == 2^Width - 1
Long(x) == IF x < Half THEN x ELSE x - 2^Width
Least(a, b) == IF a < b THEN a ELSE b

Init ==
  /\ now = StartTime
  /\ life = [q \in Queues |-> "unborn"]
  /\ managedObjects = <<>>
  /\ list = [q \in Queues |-> <<>>]
  /\ newStatus = [q \in Queues |-> "NoRing"]
  /\ queueNotEmpty = [q \in Queues |-> FALSE]
  /\ mQueueEvent = FALSE
  /\ pc = "sleep"
  /\ current = NULL
  /\ signals = <<>>
  /\ nextWakeup = Long(INFINITE)
  /\ queueWakeup = INFINITE
  /\ wakeAt = -1
  /\ due = [i \in Items |-> -1]
  /\ events = <<>>
  /\ consumers = [c \in Consumers |-> <<"idle", NULL>>]
  /\ held = {}
  /\ gone = {}
  /\ calls = 0
  /\ rings = [i \in Items |-> 0]
  /\ sleptAt = -1
  /\ snoozed = {}
  /\ unjoined = {}
  /\ takenRinging = {}
  /\ mishaps = {}

\* What follows a mishap is undefined.
Running == mishaps = {}

Tick ==
  /\ Running
  /\ now < MaxTime
  /\ now' = now + 1
  /\ UNCHANGED <<queues, mQueueEvent, manager, events, consumers, items,
                 unjoined, mishaps>>

-----------------------------------------------------------------------------
(* The queues, as their clients use them.                                  *)

Call == calls < MaxCalls /\ calls' = calls + 1

\* Of the manager; its list of queues is not locked.
Join(q) == managedObjects' = Append(managedObjects, q)
Leave(q) == managedObjects' = SelectSeq(managedObjects, LAMBDA o : o # q)
Requeue == mQueueEvent' = TRUE

Construct(q) ==
  /\ Running
  /\ Call
  /\ life[q] = "unborn"
  /\ life' = [life EXCEPT ![q] = "alive"]
  /\ Join(q)
  /\ UNCHANGED <<now, list, newStatus, queueNotEmpty, mQueueEvent, manager,
                 events, consumers, due, held, gone, snoozed, rings,
                 takenRinging, unjoined, mishaps>>

\* Nobody uses the queue: its owner sees to that, but not to the manager.
Unused(q) == \A c \in Consumers : consumers[c][2] # q

\* Mutant of Destruct: the queue does not leave the manager.
Destruct_NoLeave(q) ==
  /\ Running
  /\ Call
  /\ life[q] = "alive"
  /\ Unused(q)
  /\ life' = [life EXCEPT ![q] = "dead"]
  /\ events' = SelectSeq(events, LAMBDA e : e[1] # q)
  /\ UNCHANGED <<now, managedObjects, list, newStatus, queueNotEmpty,
                 mQueueEvent, manager, consumers, due, held, gone, snoozed,
                 rings, takenRinging, unjoined, mishaps>>

\* The events of a limited queue go with its registration.
Destruct(q) ==
  /\ Running
  /\ Call
  /\ life[q] = "alive"
  /\ Unused(q)
  /\ life' = [life EXCEPT ![q] = "dead"]
  /\ events' = SelectSeq(events, LAMBDA e : e[1] # q)
  /\ Leave(q)
  /\ unjoined' = IF pc \in {"evaluate", "notify"} THEN unjoined \cup {q}
                                                  ELSE unjoined
  /\ UNCHANGED <<now, list, newStatus, queueNotEmpty, mQueueEvent, manager,
                 consumers, due, held, gone, snoozed, rings, takenRinging,
                 mishaps>>

\* Mutant of ReevaluateWakeup: it signals a queue that is no longer empty, not
\* one that is still not empty.
ReevaluateWakeup_OnlyFirst(q, items_) ==
  /\ Requeue
  /\ queueNotEmpty' = [queueNotEmpty EXCEPT
                         ![q] = @ \/ (items_ # <<>> /\ list[q] = <<>>)]

\* Mutant of ReevaluateWakeup: the manager is not told.
ReevaluateWakeup_NoRequeue(q, items_) ==
  /\ queueNotEmpty' = [queueNotEmpty EXCEPT ![q] = @ \/ items_ # <<>>]
  /\ UNCHANGED mQueueEvent

\* The manager is to look again, and one consumer if there are items.
ReevaluateWakeup(q, items_) ==
  /\ Requeue
  /\ queueNotEmpty' = [queueNotEmpty EXCEPT ![q] = @ \/ items_ # <<>>]

Changed(q, items_) ==
  /\ Running
  /\ life[q] = "alive"
  /\ list' = [list EXCEPT ![q] = items_]
  /\ ReevaluateWakeup(q, items_)
  /\ UNCHANGED <<now, life, managedObjects, newStatus, manager, unjoined>>

\* The item is new.
PushBack(q, i, d) ==
  /\ Call
  /\ due[i] = -1
  /\ q \in Limited => d = MaximumTimeInQueue
  /\ due' = [due EXCEPT ![i] = now + d]
  /\ Changed(q, Append(list[q], i))
  /\ UNCHANGED <<events, consumers, held, gone, snoozed, rings, takenRinging,
                 mishaps>>

First(s) == {s[k] : k \in {1} \cap DOMAIN s}
Rest(s) == IF s = <<>> THEN s ELSE Tail(s)

Taken(S) ==
  takenRinging' = takenRinging \cup {i \in S : rings[i] > 0 \/ i \in ToSet(signals)}

\* Of a consumer that was woken, whose wait was a call already, or of one that did
\* not wait.
CallOfConsumer(c, q) ==
  \/ consumers[c] = <<"idle", NULL>> /\ Call
  \/ consumers[c] = <<"woken", q>> /\ UNCHANGED calls

\* Mutant of PopFront: the item that is returned stays in the list.
PopFront_Peeks(c, q) ==
  /\ CallOfConsumer(c, q)
  /\ consumers' = [consumers EXCEPT ![c] = <<"idle", NULL>>]
  /\ held' = held \cup First(list[q])
  /\ Taken(First(list[q]))
  /\ Changed(q, list[q])
  /\ UNCHANGED <<events, due, gone, snoozed, rings, mishaps>>

\* The queue may be empty: the caller gets 0.
PopFront(c, q) ==
  /\ CallOfConsumer(c, q)
  /\ consumers' = [consumers EXCEPT ![c] = <<"idle", NULL>>]
  /\ held' = held \cup First(list[q])
  /\ Taken(First(list[q]))
  /\ Changed(q, Rest(list[q]))
  /\ UNCHANGED <<events, due, gone, snoozed, rings, mishaps>>

\* cTimedQueue::RemoveAt.
TakeAt(q, k) ==
  /\ Call
  /\ held' = held \cup {list[q][k]}
  /\ Taken({list[q][k]})
  /\ Changed(q, RemoveAt(list[q], k))
  /\ UNCHANGED <<events, consumers, due, gone, snoozed, rings, mishaps>>

\* It pops the items one by one: the pops that leave some signal a consumer.
Clear(q) ==
  /\ Running
  /\ Call
  /\ life[q] = "alive"
  /\ list' = [list EXCEPT ![q] = <<>>]
  /\ ReevaluateWakeup(q, Rest(list[q]))
  /\ gone' = gone \cup ToSet(list[q])
  /\ Taken(ToSet(list[q]))
  /\ mishaps' = mishaps \cup
       (IF ToSet(list[q]) \cap gone = {} THEN {} ELSE {"twice"})
  /\ UNCHANGED <<now, life, managedObjects, newStatus, manager, unjoined, events,
                 consumers, due, held, snoozed, rings>>

\* The item is destroyed, perhaps not for the first time.
Destroy(i) ==
  /\ gone' = gone \cup {i}
  /\ mishaps' = mishaps \cup (IF i \in gone THEN {"twice"} ELSE {})

\* A client has done with an item it took out.
Delete(i) ==
  /\ Running
  /\ i \in held
  /\ held' = held \ {i}
  /\ Destroy(i)
  /\ UNCHANGED <<now, queues, mQueueEvent, manager, events, consumers, due,
                 calls, snoozed, rings, takenRinging, unjoined>>

\* Without the queue's lock, and the manager is not told.
Snooze(i, d) ==
  /\ Running
  /\ due[i] >= 0
  /\ i \notin gone
  /\ Call
  /\ due' = [due EXCEPT ![i] = now + d]
  /\ snoozed' = snoozed \cup {i}
  /\ UNCHANGED <<now, queues, mQueueEvent, manager, events, consumers, held,
                 gone, rings, takenRinging, unjoined, mishaps>>

WaitIfQueueEmpty(c, q) ==
  /\ Running
  /\ Call
  /\ life[q] = "alive"
  /\ consumers[c] = <<"idle", NULL>>
  /\ consumers' = [consumers EXCEPT ![c] = <<"waiting", q>>]
  /\ UNCHANGED <<now, queues, mQueueEvent, manager, events, due, held, gone,
                 snoozed, rings, takenRinging, unjoined, mishaps>>

WaitEnds(c, q) ==
  /\ Running
  /\ consumers[c] = <<"waiting", q>>
  /\ queueNotEmpty[q]
  /\ queueNotEmpty' = [queueNotEmpty EXCEPT ![q] = FALSE]
  /\ consumers' = [consumers EXCEPT ![c] = <<"woken", q>>]
  /\ UNCHANGED <<now, life, managedObjects, list, newStatus, mQueueEvent,
                 manager, events, items, unjoined, mishaps>>

\* Mutant of OnEvent: the item is destroyed and stays in the list.
OnEvent_NoRemove ==
  /\ Running
  /\ events # <<>>
  /\ events' = Tail(events)
  /\ Destroy(events[1][2])
  /\ UNCHANGED <<now, queues, mQueueEvent, manager, consumers, due, held,
                 calls, snoozed, rings, takenRinging, unjoined>>

\* Whether the item is still in the queue or not.  The manager is not told, nor a
\* consumer.
RemoveItem(q, i) ==
  /\ list' = [list EXCEPT ![q] = SelectSeq(@, LAMBDA x : x # i)]
  /\ Destroy(i)

\* The event thread, in cLimitedTimeQueue: Remove the item that rang.
OnEvent ==
  /\ Running
  /\ events # <<>>
  /\ RemoveItem(events[1][1], events[1][2])
  /\ events' = Tail(events)
  /\ UNCHANGED <<now, life, managedObjects, newStatus, queueNotEmpty,
                 mQueueEvent, manager, consumers, due, held, calls, snoozed,
                 rings, takenRinging, unjoined>>

-----------------------------------------------------------------------------
(* The thread of the manager.                                              *)

\* Mutant of HasExpired: an item that expires right now already has.
HasExpired_AtOnce(i) == DWORD(now) >= DWORD(due[i])

HasExpired(i) == DWORD(now) > DWORD(due[i])

\* A dead queue is used: by an iterator that was at it, or that found it.
Evaluate ==
  /\ Running
  /\ pc = "evaluate"
  /\ IF life[current] = "dead"
     THEN /\ mishaps' = mishaps \cup {"dead queue"}
          /\ UNCHANGED <<pc, signals, queueWakeup>>
     ELSE /\ signals' = SelectSeq(list[current], HasExpired)
          /\ queueWakeup' = FoldSet(Least, INFINITE,
                {DWORD(due[i]) : i \in ToSet(list[current]) \ ToSet(signals')})
          /\ pc' = "notify"
          /\ UNCHANGED mishaps
  /\ UNCHANGED <<now, queues, mQueueEvent, current, nextWakeup, wakeAt,
                 sleptAt, events, consumers, items, unjoined>>

Position(q) == CHOOSE k \in DOMAIN managedObjects : managedObjects[k] = q

\* Where ++index leads: the queue, or the end of the list.
After(k) ==
  /\ signals' = <<>>
  /\ IF k < Len(managedObjects)
     THEN pc' = "evaluate" /\ current' = managedObjects[k + 1]
     ELSE pc' = "sleep" /\ current' = NULL

\* The rings and the change of status, outside the queue's lock; then the
\* minimum, taken of signed numbers, and the next queue.
NotifyRings ==
  /\ Running
  /\ pc = "notify"
  /\ Len(events) + Len(signals) <= MaxEvents
  /\ IF life[current] = "dead"
     THEN /\ mishaps' = mishaps \cup {"dead queue"}
          /\ UNCHANGED <<pc, current, signals, nextWakeup, queueWakeup,
                         newStatus, events, rings>>
     ELSE /\ events' = events \o
               (IF current \in Limited
                THEN [k \in DOMAIN signals |-> <<current, signals[k]>>]
                ELSE <<>>)
          /\ rings' = [i \in Items |->
               IF i \in ToSet(signals) THEN Least(rings[i] + 1, 2) ELSE rings[i]]
          /\ newStatus' = [newStatus EXCEPT ![current] =
               IF signals # <<>> THEN "ItemRinging" ELSE "NoRing"]
          /\ nextWakeup' = Least(nextWakeup, Long(queueWakeup))
          /\ queueWakeup' = INFINITE
          /\ After(Position(current))
          /\ UNCHANGED mishaps
  /\ UNCHANGED <<now, life, managedObjects, list, queueNotEmpty, mQueueEvent,
                 wakeAt, sleptAt, consumers, due, held, gone, calls, snoozed,
                 takenRinging, unjoined>>

\* Mutant of Sleep: the clock is not subtracted.
Sleep_UntilTick ==
  /\ Running
  /\ pc = "sleep"
  /\ pc' = "wait"
  /\ wakeAt' = now + DWORD(nextWakeup)
  /\ sleptAt' = now
  /\ unjoined' = {}
  /\ UNCHANGED <<now, queues, mQueueEvent, current, signals, nextWakeup,
                 queueWakeup, events, consumers, items, mishaps>>

\* WaitForSingleObject begins.
Sleep ==
  /\ Running
  /\ pc = "sleep"
  /\ pc' = "wait"
  /\ LET timeout == DWORD(nextWakeup - now)
     IN wakeAt' = IF timeout = INFINITE THEN -1 ELSE now + timeout
  /\ sleptAt' = now
  /\ unjoined' = {}
  /\ UNCHANGED <<now, queues, mQueueEvent, current, signals, nextWakeup,
                 queueWakeup, events, consumers, items, mishaps>>

\* It ends by a change of some queue or by its timeout, and a round begins.
Wake ==
  /\ Running
  /\ pc = "wait"
  /\ mQueueEvent \/ wakeAt \in 0 .. now
  /\ mQueueEvent' = FALSE
  /\ nextWakeup' = Long(INFINITE)
  /\ wakeAt' = -1
  /\ sleptAt' = -1
  /\ After(0)
  /\ snoozed' = {}
  /\ UNCHANGED <<now, queues, queueWakeup, events, consumers, due, held, gone,
                 calls, rings, takenRinging, unjoined, mishaps>>

-----------------------------------------------------------------------------
Next ==
  \/ Tick
  \/ \E q \in Queues :
       \/ Construct(q)
       \/ Destruct(q)
       \/ \E i \in Items, d \in Durations : PushBack(q, i, d)
       \/ \E c \in Consumers :
            PopFront(c, q) \/ WaitIfQueueEmpty(c, q) \/ WaitEnds(c, q)
       \/ \E k \in DOMAIN list[q] : TakeAt(q, k)
       \/ Clear(q)
  \/ \E i \in Items : Delete(i) \/ \E d \in Durations : Snooze(i, d)
  \/ OnEvent
  \/ Evaluate \/ NotifyRings \/ Sleep \/ Wake

Spec == Init /\ [][Next]_vars

-----------------------------------------------------------------------------
TypeOK ==
  /\ now \in Nat
  /\ life \in [Queues -> {"unborn", "alive", "dead"}]
  /\ managedObjects \in Seq(Queues)
  /\ list \in [Queues -> Seq(Items)]
  /\ newStatus \in [Queues -> {"NoRing", "ItemRinging"}]
  /\ queueNotEmpty \in [Queues -> BOOLEAN]
  /\ mQueueEvent \in BOOLEAN
  /\ pc \in {"evaluate", "notify", "sleep", "wait"}
  /\ current \in Queues \cup {NULL}
  /\ signals \in Seq(Items)
  /\ nextWakeup \in -Half .. Half - 1
  /\ queueWakeup \in 0 .. INFINITE
  /\ {wakeAt, sleptAt} \subseteq Nat \cup {-1}
  /\ due \in [Items -> Nat \cup {-1}]
  /\ events \in Seq(Queues \X Items)
  /\ consumers \in [Consumers ->
        {"idle", "waiting", "woken"} \X (Queues \cup {NULL})]
  /\ held \cup gone \cup snoozed \cup takenRinging \subseteq Items
  /\ calls \in Nat
  /\ rings \in [Items -> 0 .. 2]
  /\ unjoined \subseteq Queues
  /\ mishaps \subseteq {"twice", "dead queue"}

\* A queue with items has its event signalled, or a consumer that has been woken
\* and has not yet taken: signals that merge in the auto-reset event leave
\* nobody waiting, because whoever takes an item passes the signal on.
ConsumersServed ==
  \A q \in Queues :
    life[q] = "alive" /\ list[q] # <<>> =>
      queueNotEmpty[q] \/ \E c \in Consumers : consumers[c] = <<"woken", q>>

\* What a client has taken out or anybody has destroyed is in no queue, once or
\* twice.  An item is destroyed again, or while its taker has it, only if it had
\* rung when it was taken, or had rung twice before the event thread removed
\* it.  The manager uses a dead queue only if that left while it went around.
UsedWhileAlive ==
  /\ TypeOK
  /\ \A q \in Queues :
       /\ IsInjective(list[q])
       /\ ToSet(list[q]) \cap (held \cup gone) = {}
  /\ held \cap gone \subseteq takenRinging
  /\ "twice" \in mishaps =>
       \E i \in gone : rings[i] = 2 \/ i \in takenRinging
  /\ pc \in {"evaluate", "notify"} =>
       life[current] = "alive" \/ current \in unjoined

Round(t) == t \div 2^Width

\* A wait begun in the upper half of the clock's round, and before the next
\* expiry, lasts at most until the first expiry in that round of any queue,
\* unless the item's life was changed since.  (In the lower half the manager
\* takes every expiry for one after INFINITE, which as a long is -1.)
WaitCoversDeadlines ==
  pc = "wait" /\ ~mQueueEvent /\ Half <= DWORD(sleptAt)
      /\ DWORD(sleptAt) <= DWORD(nextWakeup) =>
    \A q \in ToSet(managedObjects) : \A i \in ToSet(list[q]) \ snoozed :
      \/ due[i] < sleptAt
      \/ Round(due[i]) > Round(sleptAt)
      \/ wakeAt \in sleptAt .. due[i]

\* Rings come neither early nor later than the manager's waits allow: it finds an
\* item expired only after its expiry, unless that lies beyond the next wrap of
\* the clock, and it begins no wait that is longer.
RingsInTime ==
  [][/\ WaitCoversDeadlines'
     /\ \A i \in ToSet(signals') \ ToSet(signals) :
          now > due[i] \/ Round(due[i]) > Round(now)]_vars
=============================================================================
