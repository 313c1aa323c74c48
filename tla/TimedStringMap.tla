--------------------------- MODULE TimedStringMap ---------------------------
(***************************************************************************)
(* cTimedStringMap: a map whose entries a timer removes.  Each map has a   *)
(* cTimerManager of its own, of which only the promise, TimerService, is   *)
(* used here.                                                              *)
(*                                                                         *)
(* An insertion is known by its timer, and the value it stores with it.    *)
(* The timer's event lives until the timer is killed.  Clients hold        *)
(* mDataLock from the beginning of a call to its end; the timer thread     *)
(* takes it in OnTimerEvent, having got its arguments before that.         *)
(***************************************************************************)
EXTENDS Naturals, FiniteSets

CONSTANTS
  Keys, EmptyKey,  \* the keys; the one that is the empty string
  Clients, Owner,  \* threads that use the map; the one that destroys it
  MaxInserts,      \* bound on the insertions
  NULL

VARIABLES
  life, expiring, phase, suspended,  \* of TimerService: nothing suspends it here
  slot,       \* of each timer: the number the manager gave it
  keyOf,      \* of each timer: mKey of its event
  mData,      \* of each key: the insertion whose value it has, or NULL
  mDataLock,
  inserting,  \* of each client: the key it is inserting, or NULL
  map,        \* "alive", "stopping", "stopped" or "destroyed"
  argument,   \* the timer whose event OnTimerEvent was passed, or NULL
  handled,    \* OnTimerEvent has left the lock
  \* History variables.
  overtaken,  \* the expiring timer was killed before its event was read
  readFreed   \* OnTimerEvent read an event that had been freed

\* The timers, in the order of the insertions they are created for.
Timers == 1 .. MaxInserts

timers == <<life, expiring, phase, suspended>>
content == <<slot, keyOf, mData>>
callback == <<argument, handled, overtaken>>
vars == <<timers, content, mDataLock, inserting, map, callback, readFreed>>

Service == INSTANCE TimerService

Init ==
  /\ Service!Init
  /\ slot = [k \in Timers |-> 0]
  /\ keyOf = [k \in Timers |-> NULL]
  /\ mData = [key \in Keys |-> NULL]
  /\ mDataLock = NULL
  /\ inserting = [c \in Clients |-> NULL]
  /\ map = "alive"
  /\ argument = NULL
  /\ handled = FALSE
  /\ overtaken = FALSE
  /\ readFreed = FALSE

\* What follows the reading of a freed event is undefined.
Running == ~readFreed

Live == {k \in Timers : life[k] = "live"}

-----------------------------------------------------------------------------
(* Clients.                                                                *)

\* The event of the timer is freed with it.
KillTimer(k) ==
  /\ Service!Cancel(k)
  /\ overtaken' = (overtaken \/ (k = expiring /\ phase = "pending"))

\* Mutant of Erase: the timer is not stopped.
Erase_NoStop(key) ==
  /\ mData' = [mData EXCEPT ![key] = NULL]
  /\ UNCHANGED <<timers, overtaken>>

\* Remove, by whoever holds the lock: nothing if the key is not there.
Erase(key) ==
  /\ mData' = [mData EXCEPT ![key] = NULL]
  /\ IF mData[key] # NULL THEN KillTimer(mData[key])
                          ELSE UNCHANGED <<timers, overtaken>>

\* Mutant of InsertBegins: the entry the key has is not removed.
InsertBegins_NoRemove(c, key) ==
  /\ Running
  /\ map = "alive"
  /\ mDataLock = NULL
  /\ life[MaxInserts] = "unborn"
  /\ mDataLock' = c
  /\ inserting' = [inserting EXCEPT ![c] = key]
  /\ UNCHANGED <<timers, content, map, callback, readFreed>>

\* Insert removes the key first ...
InsertBegins(c, key) ==
  /\ Running
  /\ map = "alive"
  /\ mDataLock = NULL
  /\ life[MaxInserts] = "unborn"
  /\ mDataLock' = c
  /\ inserting' = [inserting EXCEPT ![c] = key]
  /\ Erase(key)
  /\ UNCHANGED <<slot, keyOf, map, argument, handled, readFreed>>

FirstFree ==
  CHOOSE n \in 1 .. Cardinality(Live) + 1 :
    /\ \A k \in Live : slot[k] # n
    /\ \A m \in 1 .. n - 1 : \E k \in Live : slot[k] = m

\* ... and creates its timer, in the first free slot.
InsertEnds(c) ==
  /\ Running
  /\ inserting[c] # NULL
  /\ LET k == CHOOSE j \in Timers : life[j] = "unborn" /\
                    \A i \in 1 .. j - 1 : life[i] # "unborn"
     IN
       /\ Service!Start(k)
       /\ slot' = [slot EXCEPT ![k] = FirstFree]
       /\ keyOf' = [keyOf EXCEPT ![k] = inserting[c]]
       /\ mData' = [mData EXCEPT ![inserting[c]] = k]
  /\ mDataLock' = NULL
  /\ inserting' = [inserting EXCEPT ![c] = NULL]
  /\ UNCHANGED <<map, callback, readFreed>>

Remove(key) ==
  /\ Running
  /\ map = "alive"
  /\ mDataLock = NULL
  /\ mData[key] # NULL
  /\ Erase(key)
  /\ UNCHANGED <<slot, keyOf, mDataLock, inserting, map, argument, handled,
                 readFreed>>

\* The destructor, when no client is in a call: it stops the timers and empties
\* the map with the lock held ...
DestructBegins ==
  /\ Running
  /\ map = "alive"
  /\ mDataLock = NULL
  /\ map' = "stopping"
  /\ mDataLock' = Owner
  /\ UNCHANGED <<timers, content, inserting, callback, readFreed>>

DestructStops(key) ==
  /\ Running
  /\ map = "stopping"
  /\ mData[key] # NULL
  /\ Erase(key)
  /\ UNCHANGED <<slot, keyOf, mDataLock, inserting, map, argument, handled,
                 readFreed>>

DestructUnlocks ==
  /\ Running
  /\ map = "stopping"
  /\ \A key \in Keys : mData[key] = NULL
  /\ map' = "stopped"
  /\ mDataLock' = NULL
  /\ UNCHANGED <<timers, content, inserting, callback, readFreed>>

\* ... then the members go in the order opposite to their declaration: the
\* timer manager, which terminates its thread, before the data and the lock.
DestructEnds ==
  /\ Running
  /\ map = "stopped"
  /\ map' = "destroyed"
  /\ Service!Shutdown
  /\ argument' = NULL
  /\ handled' = FALSE
  /\ overtaken' = FALSE
  /\ UNCHANGED <<content, mDataLock, inserting, readFreed>>

-----------------------------------------------------------------------------
(* The timer thread.                                                       *)

TimerExpires(k) ==
  /\ Running
  /\ map # "destroyed"
  /\ Service!Expire(k)
  /\ UNCHANGED <<content, mDataLock, inserting, map, callback, readFreed>>

\* The manager calls OnTimerEvent with the event that is in the slot: of the
\* timer that expired, of one created there since, or none.
TimerCalls ==
  /\ Running
  /\ Service!Deliver
  /\ LET there == {k \in Live : slot[k] = slot[expiring]}
     IN IF there = {} THEN argument' = NULL ELSE argument' \in there
  /\ UNCHANGED <<content, mDataLock, inserting, map, handled, overtaken,
                 readFreed>>

\* OnTimerEvent, holding the lock for what it does.
OnTimerEvent ==
  /\ Running
  /\ phase = "delivering" /\ ~handled
  /\ mDataLock = NULL
  /\ handled' = TRUE
  /\ UNCHANGED <<slot, keyOf, mDataLock, inserting, map, argument>>

\* It was passed no event, or one without a key.
FindsNothing ==
  /\ OnTimerEvent
  /\ argument # NULL => argument \in Live /\ keyOf[argument] = EmptyKey
  /\ UNCHANGED <<timers, mData, overtaken, readFreed>>

\* The event was freed while it waited for the lock.
ReadsFreed ==
  /\ OnTimerEvent
  /\ argument \notin Live \cup {NULL}
  /\ readFreed' = TRUE
  /\ UNCHANGED <<timers, mData, overtaken>>

\* Mutant of Expires: it removes the entry only from the map.
Expires_OnlyErases ==
  /\ OnTimerEvent
  /\ argument \in Live
  /\ keyOf[argument] # EmptyKey
  /\ Erase_NoStop(keyOf[argument])
  /\ UNCHANGED readFreed

\* Mutant of Expires: an entry is removed for the timer of the first slot only.
Expires_FirstSlot ==
  /\ OnTimerEvent
  /\ argument \in Live
  /\ keyOf[argument] # EmptyKey
  /\ IF slot[argument] = 1 THEN Erase(keyOf[argument])
                           ELSE UNCHANGED <<timers, mData, overtaken>>
  /\ UNCHANGED readFreed

\* It removes the entry that has the event's key.
Expires ==
  /\ OnTimerEvent
  /\ argument \in Live
  /\ keyOf[argument] # EmptyKey
  /\ Erase(keyOf[argument])
  /\ UNCHANGED readFreed

TimerReturns ==
  /\ Running
  /\ handled
  /\ Service!Finish
  /\ UNCHANGED <<content, mDataLock, inserting, map, callback, readFreed>>

TimerGoesOn ==
  /\ Running
  /\ Service!Settle
  /\ argument' = NULL
  /\ handled' = FALSE
  /\ overtaken' = FALSE
  /\ UNCHANGED <<content, mDataLock, inserting, map, readFreed>>

-----------------------------------------------------------------------------
Next ==
  \/ \E c \in Clients :
       (\E key \in Keys : InsertBegins(c, key)) \/ InsertEnds(c)
  \/ \E key \in Keys : Remove(key) \/ DestructStops(key)
  \/ DestructBegins \/ DestructUnlocks \/ DestructEnds
  \/ \E k \in Timers : TimerExpires(k)
  \/ TimerCalls \/ TimerReturns \/ TimerGoesOn
  \/ FindsNothing \/ ReadsFreed \/ Expires

-----------------------------------------------------------------------------
TypeOK ==
  /\ life \in [Timers -> {"unborn", "live", "dead"}]
  /\ expiring \in Timers \cup {NULL}
  /\ phase \in {"none", "pending", "delivering", "over"}
  /\ suspended = FALSE
  /\ slot \in [Timers -> Nat]
  /\ keyOf \in [Timers -> Keys \cup {NULL}]
  /\ mData \in [Keys -> Timers \cup {NULL}]
  /\ mDataLock \in Clients \cup {Owner, NULL}
  /\ inserting \in [Clients -> Keys \cup {NULL}]
  /\ map \in {"alive", "stopping", "stopped", "destroyed"}
  /\ argument \in Timers \cup {NULL}
  /\ handled \in BOOLEAN
  /\ overtaken \in BOOLEAN
  /\ readFreed \in BOOLEAN

\* The live timers are those of the entries, each with the key of its entry and a
\* slot of its own, whatever the order of insertions, removals and expiries: no
\* entry is left without a timer and no timer without an entry.
EntriesHaveTheirTimers ==
  /\ TypeOK
  /\ Live = {mData[key] : key \in Keys} \ {NULL}
  /\ \A key \in Keys : mData[key] # NULL => keyOf[mData[key]] = key
  /\ \A j, k \in Live : slot[j] = slot[k] => j = k

\* An entry has a timer as long as it is in the map, and goes by no other: the
\* timer thread removes it only when its own timer has expired, unless the timer
\* that did was killed before the manager read its event and the entry's timer
\* has its slot.
EntriesGoByTheirTimer ==
  [][/\ EntriesHaveTheirTimers'
     /\ ~handled /\ handled' =>
          \A key \in Keys : mData'[key] # mData[key] =>
            \/ mData[key] = expiring
            \/ overtaken /\ slot[mData[key]] = slot[expiring]]_vars

\* Every entry is removed at last, by a client, its timer or the destructor, if its
\* key is not empty and no freed event was read: as no more than MaxInserts are
\* inserted, there is none left in the end.
EntriesExpire ==
  <>[](~Running \/ \A k \in Live : keyOf[k] = EmptyKey)
=============================================================================
