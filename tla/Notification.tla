---------------------------- MODULE Notification ----------------------------
(***************************************************************************)
(* Notifiers, notifiable objects and the event thread of one group:        *)
(* cNotifierObject, cNotifiableObject with its cHiddenNotifiableObject,    *)
(* cLookupThreadTable, cEvtThread and the reference counts of cTEvent.     *)
(*                                                                         *)
(* Two lists record who is registered with whom, each under a lock of its  *)
(* own: the notifier's, mLockNotifier, and the object's,                   *)
(* mLockHiddenNotifiable.  Register and Unregister take the notifier's     *)
(* lock first, the destruction of a notifiable object its own.  An object  *)
(* that is destroyed leaves the lists, purges the queue and waits until    *)
(* the event thread is not busy with it; it knows that from                *)
(* pmCurrHiddenNotifiableObject, which is not protected.                   *)
(*                                                                         *)
(* Tokens are left out: a notifier and an object have one registration.    *)
(* The list of objects to purge is always empty in the code.  Callbacks    *)
(* call nothing but RepostEvent and PopEvent.                              *)
(***************************************************************************)
EXTENDS Integers, SequencesExt, FiniteSets

CONSTANTS
  Clients,
  Notifiers,
  Objects,
  Events,
  MayUnregister,   \* clients unregister objects from living notifiers
  MaxReposts,      \* bound on the RepostEvent calls of each object
  NULL

ASSUME NotificationAssumption ==
  MayUnregister \in BOOLEAN /\ MaxReposts \in Nat /\ NULL \notin Clients \cup Objects

VARIABLES
  life,                 \* of each object: "unborn", "live" or "gone"
  mbObsolete,           \* of each object
  pmNotifierObjectList, \* of each object: its notifiers
  objectList,           \* of each notifier: its registered objects
  mLockNotifier,        \* of each notifier: the thread that holds it, or NULL
  mLockHidden,          \* of each object: the same
  mLockLookup,          \* the lookup table's: the same
  op,                   \* what each client does
  mEvtQueue,
  requestToStart, requestToExit,
  mnbUses,              \* objects that use the event thread
  curr,                 \* pmCurrHiddenNotifiableObject
  evtPc, item,          \* where the event thread is, and what it took
  nbUses,               \* of each event
  reposts,              \* of each object: its RepostEvent calls
  \* History variables.
  sent,                 \* events queued for each object, in order
  delivered             \* events each object's OnEvent got

regs    == <<life, mbObsolete, pmNotifierObjectList, objectList>>
locks   == <<mLockNotifier, mLockHidden, mLockLookup>>
queue   == <<mEvtQueue, requestToStart, nbUses, sent>>
evt     == <<curr, evtPc, item, delivered>>
group   == <<requestToExit, mnbUses>>
vars == <<regs, locks, op, queue, evt, group, reposts>>

Idle == [kind |-> "idle"]

Init ==
  /\ life = [o \in Objects |-> "unborn"]
  /\ mbObsolete = [o \in Objects |-> FALSE]
  /\ pmNotifierObjectList = [o \in Objects |-> {}]
  /\ objectList = [n \in Notifiers |-> {}]
  /\ mLockNotifier = [n \in Notifiers |-> NULL]
  /\ mLockHidden = [o \in Objects |-> NULL]
  /\ mLockLookup = NULL
  /\ op = [c \in Clients |-> Idle]
  /\ mEvtQueue = <<>>
  /\ requestToStart = FALSE
  /\ requestToExit = FALSE
  /\ mnbUses = 0
  /\ curr = NULL
  /\ evtPc = "none"
  /\ item = <<>>
  /\ nbUses = [e \in Events |-> -1]
  /\ reposts = [o \in Objects |-> 0]
  /\ sent = [o \in Objects |-> <<>>]
  /\ delivered = [o \in Objects |-> <<>>]

Doing(c, kind) == op[c].kind = kind
Become(c, what) == op' = [op EXCEPT ![c] = what]

Lock(lock, x, c) == lock[x] = NULL /\ lock' = [lock EXCEPT ![x] = c]
Unlock(lock, x) == lock' = [lock EXCEPT ![x] = NULL]

\* cMappingTable has the object from its creation to the end of Disable.
Register(o) == life' = [life EXCEPT ![o] = "live"]
Unregister(o) == life' = [life EXCEPT ![o] = "gone"]
Find(o) == life[o] = "live"

\* An object is only used by clients between its creation and its destruction.
Usable(o) == Find(o) /\ \A c \in Clients : Doing(c, "destroy") => op[c].o # o

\* Object o and notifier n know each other: both lists are without doubles.
Remember(n, o) ==
  /\ objectList' = [objectList EXCEPT ![n] = @ \cup {o}]
  /\ pmNotifierObjectList' = [pmNotifierObjectList EXCEPT ![o] = @ \cup {n}]
  /\ UNCHANGED <<life, mbObsolete>>

\* Object o and notifier n forget each other.
Forget(n, o) ==
  /\ objectList' = [objectList EXCEPT ![n] = @ \ {o}]
  /\ pmNotifierObjectList' = [pmNotifierObjectList EXCEPT ![o] = @ \ {n}]
  /\ UNCHANGED <<life, mbObsolete>>

\* The queue without the events for object o, the others in their order.
Purged(o) ==
  LET kept == {i \in DOMAIN mEvtQueue : mEvtQueue[i].obj # o}
      Kth(k) == CHOOSE i \in kept : Cardinality({j \in kept : j <= i}) = k
  IN [k \in 1 .. Cardinality(kept) |-> mEvtQueue[Kth(k)]]

-----------------------------------------------------------------------------
\* Construction of a notifiable object; the first one of the group creates the
\* event thread.

AddRef == mnbUses' = mnbUses + 1
Release == mnbUses' = mnbUses - 1

\* The group's event thread, under the lookup table's lock.
GetThread ==
  /\ mLockLookup = NULL
  /\ evtPc' = IF evtPc = "none" THEN "wait" ELSE evtPc
  /\ AddRef

Create(c, o) ==
  /\ Doing(c, "idle")
  /\ life[o] = "unborn"
  /\ Register(o)
  /\ GetThread
  /\ UNCHANGED <<mbObsolete, pmNotifierObjectList, objectList, locks, op, queue,
                 curr, item, delivered, requestToExit, reposts>>

-----------------------------------------------------------------------------
\* cNotifierObject::Register and Unregister.

RegisterStart(c, n, o) ==
  /\ Doing(c, "idle")
  /\ Usable(o)
  /\ Lock(mLockNotifier, n, c)
  /\ Become(c, [kind |-> "register", n |-> n, o |-> o])
  /\ UNCHANGED <<regs, mLockHidden, mLockLookup, queue, evt, group, reposts>>

RegisterFinish(c) ==
  /\ Doing(c, "register")
  /\ LET n == op[c].n
         o == op[c].o IN
     /\ mLockHidden[o] = NULL
     /\ Remember(n, o)
     /\ Unlock(mLockNotifier, n)
  /\ Become(c, Idle)
  /\ UNCHANGED <<mLockHidden, mLockLookup, queue, evt, group, reposts>>

\* Unregister of one object, or UnregisterAll in the notifier's destructor.
UnregisterStart(c, n, objects) ==
  /\ MayUnregister
  /\ Doing(c, "idle")
  /\ objects # {} /\ objects \subseteq objectList[n]
  /\ Lock(mLockNotifier, n, c)
  /\ Become(c, [kind |-> "unregister", n |-> n, todo |-> objects])
  /\ UNCHANGED <<regs, mLockHidden, mLockLookup, queue, evt, group, reposts>>

UnregisterOne(c, o) ==
  /\ Doing(c, "unregister")
  /\ o \in op[c].todo
  /\ mLockHidden[o] = NULL
  /\ Forget(op[c].n, o)
  /\ Become(c, [op[c] EXCEPT !.todo = @ \ {o}])
  /\ UNCHANGED <<locks, queue, evt, group, reposts>>

UnregisterEnd(c) ==
  /\ Doing(c, "unregister")
  /\ op[c].todo = {}
  /\ Unlock(mLockNotifier, op[c].n)
  /\ Become(c, Idle)
  /\ UNCHANGED <<regs, mLockHidden, mLockLookup, queue, evt, group, reposts>>

-----------------------------------------------------------------------------
\* cNotifierObject::Notify.

\* A client creates an event, which counts as one use, and notifies it.
NotifyStart(c, n, e) ==
  /\ Doing(c, "idle")
  /\ nbUses[e] = -1
  /\ nbUses' = [nbUses EXCEPT ![e] = 1]
  /\ Lock(mLockNotifier, n, c)
  /\ Become(c, [kind |-> "notify", n |-> n, e |-> e, todo |-> objectList[n]])
  /\ UNCHANGED <<regs, mLockHidden, mLockLookup, mEvtQueue, requestToStart, sent,
                 evt, group, reposts>>

\* An obsolete object is not notified ...
NotifyCheck(c, o) ==
  /\ Doing(c, "notify")
  /\ o \in op[c].todo
  /\ Become(c, IF mbObsolete[o] THEN [op[c] EXCEPT !.todo = @ \ {o}]
               ELSE [kind |-> "push", n |-> op[c].n, e |-> op[c].e,
                     todo |-> op[c].todo \ {o}, o |-> o])
  /\ UNCHANGED <<regs, locks, queue, evt, group, reposts>>

\* Mutant of Enqueued: the event is put at the front of the queue.
Enqueued_AtFront(e, o) ==
  /\ mEvtQueue' = <<[evt |-> e, obj |-> o]>> \o mEvtQueue
  /\ nbUses' = [nbUses EXCEPT ![e] = @ + 1]
  /\ requestToStart' = TRUE
  /\ sent' = [sent EXCEPT ![o] = Append(@, e)]

\* Mutant of Enqueued: the queue takes no reference.
Enqueued_NoRef(e, o) ==
  /\ mEvtQueue' = Append(mEvtQueue, [evt |-> e, obj |-> o])
  /\ requestToStart' = TRUE
  /\ sent' = [sent EXCEPT ![o] = Append(@, e)]
  /\ UNCHANGED nbUses

\* cEvtThread::Notify.
Enqueued(e, o) ==
  /\ mEvtQueue' = Append(mEvtQueue, [evt |-> e, obj |-> o])
  /\ nbUses' = [nbUses EXCEPT ![e] = @ + 1]
  /\ requestToStart' = TRUE
  /\ sent' = [sent EXCEPT ![o] = Append(@, e)]

\* ... any other gets the event in its thread's queue.
NotifyPush(c) ==
  /\ Doing(c, "push")
  /\ Enqueued(op[c].e, op[c].o)
  /\ Become(c, [kind |-> "notify", n |-> op[c].n, e |-> op[c].e, todo |-> op[c].todo])
  /\ UNCHANGED <<regs, locks, evt, group, reposts>>

\* The client gives up its own use of the event.
NotifyEnd(c) ==
  /\ Doing(c, "notify")
  /\ op[c].todo = {}
  /\ Unlock(mLockNotifier, op[c].n)
  /\ nbUses' = [nbUses EXCEPT ![op[c].e] = @ - 1]
  /\ Become(c, Idle)
  /\ UNCHANGED <<regs, mLockHidden, mLockLookup, mEvtQueue, requestToStart, sent,
                 evt, group, reposts>>

-----------------------------------------------------------------------------
\* Destruction of a notifiable object: cHiddenNotifiableObject::Disable.

Stage(c, o, stage) == Become(c, [kind |-> "destroy", o |-> o, stage |-> stage])
At(c, stage) == Doing(c, "destroy") /\ op[c].stage = stage

DestroyStart(c, o) ==
  /\ Doing(c, "idle")
  /\ Usable(o)
  /\ \A d \in Clients : Doing(d, "register") => op[d].o # o
  /\ Lock(mLockHidden, o, c)
  /\ mbObsolete' = [mbObsolete EXCEPT ![o] = TRUE]
  /\ Stage(c, o, "unregister")
  /\ UNCHANGED <<life, pmNotifierObjectList, objectList, mLockNotifier,
                 mLockLookup, queue, evt, group, reposts>>

\* Mutant of DestroyUnregister: the notifier's lock is not taken.
DestroyUnregister_NoLock(c, n) ==
  /\ At(c, "unregister")
  /\ n \in pmNotifierObjectList[op[c].o]
  /\ Forget(n, op[c].o)
  /\ UNCHANGED <<locks, op, queue, evt, group, reposts>>

\* UnregisterAll: each notifier is told, under its lock.
DestroyUnregister(c, n) ==
  /\ At(c, "unregister")
  /\ n \in pmNotifierObjectList[op[c].o]
  /\ mLockNotifier[n] = NULL
  /\ Forget(n, op[c].o)
  /\ UNCHANGED <<locks, op, queue, evt, group, reposts>>

\* The queue is purged; the purged events keep the queue's use of them.
DestroyPurge(c) ==
  /\ At(c, "unregister")
  /\ LET o == op[c].o IN
     /\ pmNotifierObjectList[o] = {}
     /\ mEvtQueue' = Purged(o)
     /\ Unlock(mLockHidden, o)
     /\ Stage(c, o, "spin")
  /\ UNCHANGED <<regs, mLockNotifier, mLockLookup, requestToStart, nbUses, sent,
                 evt, group, reposts>>

\* Mutant of DestroySpin: the object does not wait for the event in progress.
DestroySpin_Skipped(c) ==
  /\ At(c, "spin")
  /\ Stage(c, op[c].o, "leave")
  /\ UNCHANGED <<regs, locks, queue, evt, group, reposts>>

DestroySpin(c) ==
  /\ At(c, "spin")
  /\ curr # op[c].o
  /\ Stage(c, op[c].o, "leave")
  /\ UNCHANGED <<regs, locks, queue, evt, group, reposts>>

\* The object gives up the event thread, which the last one ends and joins with
\* the lookup table locked.
DestroyLeave(c) ==
  /\ At(c, "leave")
  /\ LET o == op[c].o IN
     /\ mLockLookup = NULL
     /\ mLockHidden[o] = NULL
     /\ Release
     /\ IF mnbUses = 1
        THEN /\ requestToExit' = TRUE
             /\ mLockLookup' = c
             /\ Stage(c, o, "join")
             /\ UNCHANGED life
        ELSE /\ Unregister(o)
             /\ Become(c, Idle)
             /\ UNCHANGED <<requestToExit, mLockLookup>>
  /\ UNCHANGED <<mbObsolete, pmNotifierObjectList, objectList, mLockNotifier,
                 mLockHidden, queue, evt, reposts>>

\* The thread object goes, and its queue with it.
DestroyJoin(c) ==
  /\ At(c, "join")
  /\ evtPc = "exited"
  /\ evtPc' = "none"
  /\ mEvtQueue' = <<>>
  /\ requestToStart' = FALSE
  /\ requestToExit' = FALSE
  /\ mLockLookup' = NULL
  /\ Unregister(op[c].o)
  /\ Become(c, Idle)
  /\ UNCHANGED <<mbObsolete, pmNotifierObjectList, objectList, mLockNotifier,
                 mLockHidden, nbUses, sent, curr, item, delivered,
                 mnbUses, reposts>>

\* cNotifiableObject::PurgeEvents, by a client of a living object.
PurgeEvents(c, o) ==
  /\ Doing(c, "idle")
  /\ Usable(o)
  /\ mEvtQueue' = Purged(o)
  /\ UNCHANGED <<regs, locks, op, requestToStart, nbUses, sent, evt, group, reposts>>

-----------------------------------------------------------------------------
\* The event thread: cEvtThread::Dispatch.

EvtUnchanged == UNCHANGED <<regs, locks, op, sent, group>>

\* Both events may be signalled: the one to start is looked at first.
EvtWake ==
  /\ evtPc = "wait"
  /\ requestToStart \/ requestToExit
  /\ evtPc' = IF requestToStart THEN "pop" ELSE "exited"
  /\ requestToStart' = FALSE
  /\ EvtUnchanged
  /\ UNCHANGED <<mEvtQueue, nbUses, curr, item, delivered, reposts>>

\* Mutant of EvtPop: one event per signal.
EvtPop_OnePerSignal ==
  /\ evtPc = "pop"
  /\ IF mEvtQueue = <<>> \/ item # <<>>
     THEN evtPc' = "wait" /\ item' = <<>> /\ UNCHANGED mEvtQueue
     ELSE /\ item' = <<Head(mEvtQueue)>>
          /\ mEvtQueue' = Tail(mEvtQueue)
          /\ evtPc' = "set"
  /\ EvtUnchanged
  /\ UNCHANGED <<requestToStart, nbUses, curr, delivered, reposts>>

EvtPop ==
  /\ evtPc = "pop"
  /\ IF mEvtQueue = <<>>
     THEN evtPc' = "wait" /\ item' = <<>> /\ UNCHANGED mEvtQueue
     ELSE /\ item' = <<Head(mEvtQueue)>>
          /\ mEvtQueue' = Tail(mEvtQueue)
          /\ evtPc' = "set"
  /\ EvtUnchanged
  /\ UNCHANGED <<requestToStart, nbUses, curr, delivered, reposts>>

EvtSet ==
  /\ evtPc = "set"
  /\ curr' = item[1].obj
  /\ evtPc' = "call"
  /\ EvtUnchanged
  /\ UNCHANGED <<mEvtQueue, requestToStart, nbUses, item, delivered,
                 reposts>>

\* OnEvent, which an obsolete object ignores.  What an object that is gone
\* does is anybody's guess; the model lets it ignore the event.
EvtCall ==
  /\ evtPc = "call"
  /\ LET o == item[1].obj IN
     IF mbObsolete[o]
     THEN evtPc' = "release" /\ UNCHANGED delivered
     ELSE /\ evtPc' = "callback"
          /\ delivered' = [delivered EXCEPT ![o] = Append(@, item[1].evt)]
  /\ EvtUnchanged
  /\ UNCHANGED <<mEvtQueue, requestToStart, nbUses, curr, item, reposts>>

\* Mutant of RepostEvent: the queue takes no reference.
RepostEvent_NoRef(inFront) ==
  /\ evtPc = "callback"
  /\ reposts[item[1].obj] < MaxReposts
  /\ reposts' = [reposts EXCEPT ![item[1].obj] = @ + 1]
  /\ mEvtQueue' = IF inFront THEN item \o mEvtQueue ELSE mEvtQueue \o item
  /\ requestToStart' = TRUE
  /\ EvtUnchanged
  /\ UNCHANGED <<nbUses, evt>>

\* In its callback an object may put the event back into the queue ...
RepostEvent(inFront) ==
  /\ evtPc = "callback"
  /\ reposts[item[1].obj] < MaxReposts
  /\ reposts' = [reposts EXCEPT ![item[1].obj] = @ + 1]
  /\ mEvtQueue' = IF inFront THEN item \o mEvtQueue ELSE mEvtQueue \o item
  /\ nbUses' = [nbUses EXCEPT ![item[1].evt] = @ + 1]
  /\ requestToStart' = TRUE
  /\ EvtUnchanged
  /\ UNCHANGED evt

\* ... or take its next event out, which it then owns and releases.
PopEvent(i) ==
  /\ evtPc = "callback"
  /\ mEvtQueue[i].obj = item[1].obj
  /\ \A j \in 1 .. i - 1 : mEvtQueue[j].obj # item[1].obj
  /\ mEvtQueue' = RemoveAt(mEvtQueue, i)
  /\ nbUses' = [nbUses EXCEPT ![mEvtQueue[i].evt] = @ - 1]
  /\ EvtUnchanged
  /\ UNCHANGED <<requestToStart, evt, reposts>>

EvtReturn ==
  /\ evtPc = "callback"
  /\ evtPc' = "release"
  /\ EvtUnchanged
  /\ UNCHANGED <<mEvtQueue, requestToStart, nbUses, curr, item, delivered,
                 reposts>>

\* Mutant of EvtRelease: the thread keeps the object it was busy with.
EvtRelease_KeepsCurr ==
  /\ evtPc = "release"
  /\ nbUses' = [nbUses EXCEPT ![item[1].evt] = @ - 1]
  /\ evtPc' = "pop"
  /\ EvtUnchanged
  /\ UNCHANGED <<mEvtQueue, requestToStart, curr, item, delivered, reposts>>

EvtRelease ==
  /\ evtPc = "release"
  /\ nbUses' = [nbUses EXCEPT ![item[1].evt] = @ - 1]
  /\ curr' = NULL
  /\ evtPc' = "pop"
  /\ EvtUnchanged
  /\ UNCHANGED <<mEvtQueue, requestToStart, item, delivered, reposts>>

-----------------------------------------------------------------------------
Evt == EvtWake \/ EvtPop \/ EvtSet \/ EvtCall \/ EvtReturn \/ EvtRelease

Handler ==
  \/ \E b \in BOOLEAN : RepostEvent(b)
  \/ \E i \in DOMAIN mEvtQueue : PopEvent(i)

\* What a client does next in a call it has begun.
Continue(c) ==
  \/ RegisterFinish(c) \/ UnregisterEnd(c) \/ NotifyPush(c) \/ NotifyEnd(c)
  \/ \E o \in Objects : UnregisterOne(c, o) \/ NotifyCheck(c, o)
  \/ \E n \in Notifiers : DestroyUnregister(c, n)
  \/ DestroyPurge(c) \/ DestroySpin(c) \/ DestroyLeave(c) \/ DestroyJoin(c)

Begin(c) ==
  \/ \E o \in Objects : Create(c, o) \/ DestroyStart(c, o) \/ PurgeEvents(c, o)
  \/ \E n \in Notifiers, o \in Objects : RegisterStart(c, n, o)
  \/ \E n \in Notifiers, S \in SUBSET Objects : UnregisterStart(c, n, S)
  \/ \E n \in Notifiers, e \in Events : NotifyStart(c, n, e)

Next == Evt \/ Handler \/ \E c \in Clients : Begin(c) \/ Continue(c)

Spec == Init /\ [][Next]_vars

\* The event thread runs and callbacks return, and a client that has begun a
\* call goes on with it; critical sections are fair.
FairSpec == Spec /\ WF_vars(Evt) /\ \A c \in Clients : SF_vars(Continue(c))

-----------------------------------------------------------------------------
\* Types; the event thread exists, and counts its objects, while there are any.
TypeOK ==
  /\ life \in [Objects -> {"unborn", "live", "gone"}]
  /\ mEvtQueue \in Seq([evt : Events, obj : Objects])
  /\ curr \in Objects \cup {NULL}
  /\ evtPc \in {"none", "wait", "pop", "set", "call", "callback", "release", "exited"}
  /\ nbUses \in [Events -> Int]
  /\ mnbUses = Cardinality({o \in Objects : life[o] = "live" /\
                 \A c \in Clients : At(c, "join") => op[c].o # o})
  /\ mnbUses > 0 => evtPc \notin {"none", "exited"}

\* An event that is queued, or being delivered, or that a client still sends, is
\* counted for each and so not deleted, also when several objects share it.
EventsAlive ==
  /\ TypeOK
  /\ \A e \in Events : nbUses[e] # -1 =>
       nbUses[e] >= Cardinality({i \in DOMAIN mEvtQueue : mEvtQueue[i].evt = e})
                  + Cardinality({c \in Clients : op[c].kind \in {"notify", "push"}
                                                 /\ op[c].e = e})
                  + (IF evtPc \in {"set", "call", "callback", "release"} /\ item[1].evt = e
                     THEN 1 ELSE 0)

\* "Enleve toutes les evenements qui refere a l'objet": once an object has
\* purged the queue no event for it is in the queue or comes into it, though
\* notifiers read mbObsolete without a lock; but an object that reposts may do
\* it after the purge.
PurgedForGood ==
  \A o \in {p \in Objects : reposts[p] = 0} :
    life[o] = "gone" \/ (\E c \in Clients : Doing(c, "destroy") /\ op[c].o = o
                                             /\ op[c].stage # "unregister")
      => \A i \in DOMAIN mEvtQueue : mEvtQueue[i].obj # o

\* A callback never outlives its object: the destructor waits for it.
CallbackKeepsObject == evtPc = "callback" => life[item[1].obj] = "live"

\* The destructor of an object ends what the event thread has with it: nothing is
\* queued for it any more, and no callback of it is under way.
DestroyedObjectLeftAlone == PurgedForGood /\ CallbackKeepsObject

\* An object that does not repost gets events in the order they were queued for
\* it, and once.
DeliveredInOrder ==
  \A o \in Objects : \A i, j \in DOMAIN delivered[o] :
    reposts[o] = 0 /\ i < j => \E m, n \in DOMAIN sent[o] :
               m < n /\ sent[o][m] = delivered[o][i] /\ sent[o][n] = delivered[o][j]

\* Two threads wait for each other: one destroys object o and needs the lock of
\* a notifier, whose holder needs the lock of o.
CircularWait(o) ==
  \E c, d \in Clients, n \in Notifiers :
    /\ mLockHidden[o] = c /\ At(c, "unregister") /\ n \in pmNotifierObjectList[o]
    /\ mLockNotifier[n] = d /\ Doing(d, "unregister") /\ o \in op[d].todo

\* An object that is being destroyed goes, or is part of a circular wait: the
\* lock order is the only thing that can stop it.
DestroyCompletes ==
  \A o \in Objects :
    mbObsolete[o] ~> (life[o] = "gone" \/ \E p \in Objects : CircularWait(p))

\* A queued event is taken out of the queue, by the thread or by a purge.
QueueDrains == mEvtQueue # <<>> ~> mEvtQueue = <<>>

\* Destructors return and events are delivered: neither waits for ever on the other,
\* but for the circular wait.
NotificationProgresses == DestroyCompletes /\ QueueDrains
=============================================================================
