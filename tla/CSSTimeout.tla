----------------------------- MODULE CSSTimeout -----------------------------
(***************************************************************************)
(* cCSSTimeout: timeouts that one thread keeps with the timers of Windows, *)
(* and that signal a multicondition when they expire.  start, stop and the *)
(* destructor post messages to that thread; the destructor waits for the   *)
(* answer, unless it is called on that thread itself.                      *)
(*                                                                         *)
(* mStatus is written by the clients at once, the timers by the thread     *)
(* when it gets the message.  Messages are lost before the thread has a    *)
(* message queue.  The maps are used by the thread only.  KillTimer leaves *)
(* a WM_TIMER that is already due; GetMessage may give it before or after  *)
(* a message that was posted.  A Timeouts value is an address: a timeout   *)
(* may be created where one was destroyed.                                 *)
(***************************************************************************)
EXTENDS Multicondition, Sequences, FiniteSets

CONSTANTS
  TimeoutThread,
  Timeouts,
  TimerIds,   \* of the system's timers
  MaxLives,   \* bound on the timeouts created at one address
  MaxCalls    \* bound on the calls of the clients

Clients == Threads \ {TimeoutThread}

ASSUME TimeoutAssumption ==
  /\ TimeoutThread \in Threads
  /\ NULL \notin Threads \cup Timeouts \cup TimerIds
  /\ MaxLives \in Nat /\ MaxCalls \in Nat

VARIABLES
  life,             \* of each timeout: "none", "live", "dying", "dead"
  mpMC,             \* init was called
  mStatus,
  mStopEvt,
  pc, object,       \* of each client: where it is in which timeout's method
  messages,         \* posted to the thread
  mUserTimerMap, mSystemTimerMap,
  mVoidedUserTimerSet,
  running, due,     \* system timers that run, and whose WM_TIMER is to be got
  tpc,              \* of the timeout thread
  timer, expiring,  \* the WM_TIMER in hand and its timeout
  lives, calls,
  \* History variables.
  posted,           \* number of starts posted for each timeout
  period,           \* number of the start that set each system timer
  late,             \* timeouts restarted with a WM_TIMER due
  mishaps           \* "lost": a message came before the queue; "refused": by
                    \* SetTimer; "crossed": stop was posted behind the start of
                    \* another client that had changed mStatus later;
                    \* "torn": destroyed on the thread with a start posted

objects == <<life, mpMC, mStatus, mStopEvt>>
client  == <<pc, object>>
maps    == <<mUserTimerMap, mSystemTimerMap, mVoidedUserTimerSet>>
system  == <<running, due>>
thread  == <<tpc, timer, expiring>>
bounds  == <<lives, calls>>
past    == <<posted, period, late, mishaps>>
vars    == <<condition, objects, client, messages, maps, system, thread, bounds, past>>

Init ==
  /\ InitCondition
  /\ life = [o \in Timeouts |-> "none"]
  /\ mpMC = [o \in Timeouts |-> FALSE]
  /\ mStatus = [o \in Timeouts |-> "Disable"]
  /\ mStopEvt = [o \in Timeouts |-> FALSE]
  /\ pc = [c \in Clients |-> "idle"]
  /\ object = [c \in Clients |-> NULL]
  /\ messages = <<>>
  /\ mUserTimerMap = [o \in Timeouts |-> NULL]
  /\ mSystemTimerMap = [i \in TimerIds |-> NULL]
  /\ mVoidedUserTimerSet = {}
  /\ running = {} /\ due = {}
  /\ tpc = "none"
  /\ timer = NULL /\ expiring = NULL
  /\ lives = [o \in Timeouts |-> 0]
  /\ calls = 0
  /\ posted = [o \in Timeouts |-> 0]
  /\ period = [i \in TimerIds |-> 0]
  /\ late = {}
  /\ mishaps = {}

-----------------------------------------------------------------------------
\* Clients.

Idle(c) == pc[c] = "idle" /\ waiting[c] = "no"

Call ==
  /\ calls < MaxCalls
  /\ calls' = calls + 1
  /\ UNCHANGED lives

Goto(c, p, o) ==
  /\ pc' = [pc EXCEPT ![c] = p]
  /\ object' = [object EXCEPT ![c] = o]

\* PostThreadMessage fails as long as the thread has not called GetMessage.
Post(message, more) ==
  LET queue == tpc \notin {"none", "starting"}
  IN  /\ messages' = IF queue THEN Append(messages, message) ELSE messages
      /\ mishaps' = mishaps \cup more \cup IF queue THEN {} ELSE {"lost"}

StartMessage(o)      == [kind |-> "start", mpTO |-> o, nth |-> posted[o] + 1]
StopMessage(o, from) == [kind |-> "stop", mpTO |-> o, from |-> from]

UsersOf(o) == {c \in Clients : object[c] = o}

StartPending(o) ==
  \E n \in DOMAIN messages : messages[n].kind = "start" /\ messages[n].mpTO = o

\* The constructor; the first one creates the thread.
Construct(c, o) ==
  /\ Idle(c)
  /\ life[o] \in {"none", "dead"}
  /\ lives[o] < MaxLives
  /\ lives' = [lives EXCEPT ![o] = @ + 1]
  /\ life' = [life EXCEPT ![o] = "live"]
  /\ mpMC' = [mpMC EXCEPT ![o] = FALSE]
  /\ mStatus' = [mStatus EXCEPT ![o] = "Disable"]
  /\ mStopEvt' = [mStopEvt EXCEPT ![o] = FALSE]
  /\ tpc' = IF tpc = "none" THEN "starting" ELSE tpc
  /\ UNCHANGED <<condition, client, messages, maps, system, timer, expiring, calls,
                 past>>

init(c, o) ==
  /\ Idle(c) /\ Call
  /\ life[o] = "live" /\ ~mpMC[o]
  /\ mpMC' = [mpMC EXCEPT ![o] = TRUE]
  /\ mStatus' = [mStatus EXCEPT ![o] = "Expired"]
  /\ UNCHANGED <<condition, life, mStopEvt, client, messages, maps, system, thread,
                 past>>

\* A method begins: the status changes, with or without mStatusCS ...
Begins(c, o, status, p) ==
  /\ Idle(c) /\ Call
  /\ life[o] = "live"
  /\ mStatus' = [mStatus EXCEPT ![o] = status]
  /\ Goto(c, p, o)
  /\ UNCHANGED <<condition, mpMC, mStopEvt, messages, maps, system, thread, past>>

start(c, o)   == Begins(c, o, "Set", "start") /\ UNCHANGED life
stop(c, o)    == Begins(c, o, "Expired", "stop") /\ UNCHANGED life
disable(c, o) == Begins(c, o, "Disable", "disable") /\ UNCHANGED life

\* Nobody else may be in a method of the timeout that is destroyed.
destroy(c, o) ==
  /\ UsersOf(o) = {}
  /\ Begins(c, o, "Expired", "destroy")
  /\ life' = [life EXCEPT ![o] = "dying"]

\* ... disable calls stop ...
DisableStops(c) ==
  /\ pc[c] = "disable"
  /\ mStatus' = [mStatus EXCEPT ![object[c]] = "Expired"]
  /\ Goto(c, "stop", object[c])
  /\ UNCHANGED <<condition, life, mpMC, mStopEvt, messages, maps, system, thread,
                 bounds, past>>

\* ... and the message is posted.
PostStart(c) ==
  /\ pc[c] = "start"
  /\ Post(StartMessage(object[c]), {})
  /\ posted' = [posted EXCEPT ![object[c]] = @ + 1]
  /\ Goto(c, "idle", NULL)
  /\ UNCHANGED <<condition, objects, maps, system, thread, bounds, period, late>>

PostStop(c) ==
  /\ pc[c] = "stop"
  /\ Post(StopMessage(object[c], NULL),
          IF mStatus[object[c]] = "Set" THEN {"crossed"} ELSE {})
  /\ Goto(c, "idle", NULL)
  /\ UNCHANGED <<condition, objects, maps, system, thread, bounds, posted, period, late>>

PostDestroy(c) ==
  /\ pc[c] = "destroy"
  /\ Post(StopMessage(object[c], c), {})
  /\ Goto(c, "destroyed", object[c])
  /\ UNCHANGED <<condition, objects, maps, system, thread, bounds, posted, period, late>>

\* Mutant of DestroyReturns: the destructor does not wait for the thread.
DestroyReturns_NoWait(c) ==
  /\ pc[c] = "destroyed"
  /\ life' = [life EXCEPT ![object[c]] = "dead"]
  /\ mStopEvt' = [mStopEvt EXCEPT ![object[c]] = FALSE]
  /\ Goto(c, "idle", NULL)
  /\ UNCHANGED <<condition, mpMC, mStatus, messages, maps, system, thread, bounds, past>>

\* mStopEvt.Wait returns, and the timeout is gone.
DestroyReturns(c) ==
  /\ pc[c] = "destroyed"
  /\ mStopEvt[object[c]]
  /\ life' = [life EXCEPT ![object[c]] = "dead"]
  /\ mStopEvt' = [mStopEvt EXCEPT ![object[c]] = FALSE]
  /\ Goto(c, "idle", NULL)
  /\ UNCHANGED <<condition, mpMC, mStatus, messages, maps, system, thread, bounds, past>>

\* What clients do with the multicondition.
UseCondition(c) ==
  /\ Idle(c) /\ Call
  /\ \/ Acquire(c) \/ wait(c) \/ signal(c, Ack)
     \/ \E type \in {kNotSetMct, Ack} : setType(c, type)
  /\ UNCHANGED <<objects, client, messages, maps, system, thread, past>>

ConditionGoesOn(c) ==
  /\ pc[c] = "idle"
  /\ Release(c) \/ WaitBlocks(c) \/ WaitReturns(c)
  /\ UNCHANGED <<objects, client, messages, maps, system, thread, bounds, past>>

-----------------------------------------------------------------------------
\* The timeout thread.

\* The first GetMessage.
ThreadStarts ==
  /\ tpc = "starting"
  /\ tpc' = "get"
  /\ UNCHANGED <<condition, objects, client, messages, maps, system, timer, expiring,
                 bounds, past>>

Got(kind) ==
  /\ tpc = "get"
  /\ messages # <<>>
  /\ Head(messages).kind = kind
  /\ messages' = Tail(messages)

\* Mutant of KillPrevious: the timer of the start before runs on.
KillPrevious_Not(o, new) == running \cup {new}

\* A start while the timer runs kills it, and leaves its entry in
\* mSystemTimerMap.
KillPrevious(o, new) == (running \ {mUserTimerMap[o]}) \cup {new}

HandleStartTimer ==
  /\ Got("start")
  /\ LET o == Head(messages).mpTO
     IN  \/ \E new \in TimerIds \ (running \cup due) :
              /\ running' = KillPrevious(o, new)
              /\ mUserTimerMap' = [mUserTimerMap EXCEPT ![o] = new]
              /\ mSystemTimerMap' = [mSystemTimerMap EXCEPT ![new] = o]
              /\ period' = [period EXCEPT ![new] = Head(messages).nth]
              /\ late' = IF mUserTimerMap[o] \in due THEN late \cup {o} ELSE late
              /\ UNCHANGED mishaps
         \/ \* SetTimer fails
            /\ mishaps' = mishaps \cup {"refused"}
            /\ UNCHANGED <<running, mUserTimerMap, mSystemTimerMap, period, late>>
  /\ UNCHANGED <<condition, objects, client, mVoidedUserTimerSet, due, thread, bounds,
                 posted>>

\* The timeout's system timer is killed and forgotten.
ForgetTimer(o) ==
  LET old == mUserTimerMap[o]
  IN  /\ running' = running \ {old}
      /\ mUserTimerMap' = [mUserTimerMap EXCEPT ![o] = NULL]
      /\ mSystemTimerMap' = [i \in TimerIds |-> IF i = old THEN NULL ELSE mSystemTimerMap[i]]

\* Mutant of Answer: only if the timer was running.
Answer_IfRunning(o, from) ==
  IF from \in Clients /\ mUserTimerMap[o] # NULL
  THEN [mStopEvt EXCEPT ![o] = TRUE] ELSE mStopEvt

\* SignalStopProcessed, to a client that waits in the destructor.
Answer(o, from) == IF from \in Clients THEN [mStopEvt EXCEPT ![o] = TRUE] ELSE mStopEvt

HandleStopTimer ==
  /\ Got("stop")
  /\ LET o    == Head(messages).mpTO
         from == Head(messages).from
     IN  /\ ForgetTimer(o)
         /\ mStopEvt' = Answer(o, from)
         /\ mVoidedUserTimerSet' = IF from = TimeoutThread
                                   THEN mVoidedUserTimerSet \ {o} ELSE mVoidedUserTimerSet
  /\ UNCHANGED <<condition, life, mpMC, mStatus, client, due, thread, bounds, past>>

\* WM_TIMER: the timer is looked up, killed and forgotten, and the timeout
\* expires if it had one and was not destroyed on this thread.
TakeTimer(i) ==
  /\ tpc = "get"
  /\ i \in due
  /\ due' = due \ {i}
  /\ timer' = i
  /\ IF mSystemTimerMap[i] = NULL
     THEN /\ running' = running \ {i}
          /\ UNCHANGED <<maps, tpc, expiring>>
     ELSE LET o     == mSystemTimerMap[i]
              found == mUserTimerMap[o] # NULL
          IN  /\ IF found THEN ForgetTimer(o)
                 ELSE UNCHANGED <<running, mUserTimerMap, mSystemTimerMap>>
              /\ mVoidedUserTimerSet' = mVoidedUserTimerSet \ {o}
              /\ IF found /\ o \notin mVoidedUserTimerSet
                 THEN tpc' = "expire" /\ expiring' = o
                 ELSE UNCHANGED <<tpc, expiring>>
  /\ UNCHANGED <<condition, objects, client, messages, bounds, past>>

\* OkToExpire: stop and disable may have come before.
OkToExpire ==
  /\ tpc = "expire"
  /\ IF mStatus[expiring] = "Set"
     THEN /\ mStatus' = [mStatus EXCEPT ![expiring] = "Expired"]
          /\ tpc' = IF mpMC[expiring] THEN "signal" ELSE "get"
     ELSE tpc' = "get" /\ UNCHANGED mStatus
  /\ UNCHANGED <<condition, life, mpMC, mStopEvt, client, messages, maps, system,
                 timer, expiring, bounds, past>>

Signal ==
  /\ tpc = "signal"
  /\ signal(TimeoutThread, kToMct)
  /\ tpc' = "get"
  /\ UNCHANGED <<objects, client, messages, maps, system, timer, expiring, bounds, past>>

\* signal is virtual: what the application puts there may destroy a timeout,
\* which then cannot wait for the thread.
DestroyOnThread(o) ==
  /\ tpc = "signal"
  /\ life[o] = "live" /\ UsersOf(o) = {}
  /\ life' = [life EXCEPT ![o] = "dead"]
  /\ mStatus' = [mStatus EXCEPT ![o] = "Expired"]
  /\ mVoidedUserTimerSet' = mVoidedUserTimerSet \cup {o}
  /\ Post(StopMessage(o, TimeoutThread), IF StartPending(o) THEN {"torn"} ELSE {})
  /\ UNCHANGED <<condition, mpMC, mStopEvt, client, mUserTimerMap, mSystemTimerMap,
                 system, thread, bounds, posted, period, late>>

\* A system timer that runs comes due; it goes on until it is killed.
Elapses(i) ==
  /\ i \in running \ due
  /\ due' = due \cup {i}
  /\ UNCHANGED <<condition, objects, client, messages, maps, running, thread, bounds, past>>

-----------------------------------------------------------------------------
Finishes(c) ==
  DisableStops(c) \/ PostStart(c) \/ PostStop(c) \/ PostDestroy(c) \/ DestroyReturns(c)

Thread ==
  \/ ThreadStarts \/ HandleStartTimer \/ HandleStopTimer
  \/ (\E i \in TimerIds : TakeTimer(i)) \/ OkToExpire \/ Signal

Next ==
  \/ \E c \in Clients, o \in Timeouts :
       Construct(c, o) \/ init(c, o) \/ start(c, o) \/ stop(c, o) \/ disable(c, o)
         \/ destroy(c, o)
  \/ \E c \in Clients : Finishes(c) \/ UseCondition(c) \/ ConditionGoesOn(c)
  \/ Thread
  \/ \E o \in Timeouts : DestroyOnThread(o)
  \/ \E i \in TimerIds : Elapses(i)

Spec == Init /\ [][Next]_vars

\* The thread runs and the system's timers come due; a client goes on in a
\* method, and leaves the section it is in.
Fairness ==
  /\ WF_vars(Thread)
  /\ \A i \in TimerIds : WF_vars(Elapses(i))
  /\ \A c \in Clients : WF_vars(Finishes(c)) /\ WF_vars(ConditionGoesOn(c))

-----------------------------------------------------------------------------
TypeOK ==
  /\ life \in [Timeouts -> {"none", "live", "dying", "dead"}]
  /\ mStatus \in [Timeouts -> {"Set", "Expired", "Disable"}]
  /\ mUserTimerMap \in [Timeouts -> TimerIds \cup {NULL}]
  /\ mSystemTimerMap \in [TimerIds -> Timeouts \cup {NULL}]
  /\ mVoidedUserTimerSet \subseteq Timeouts
  /\ running \subseteq TimerIds /\ due \subseteq TimerIds
  /\ \A c \in Clients : object[c] = NULL <=> pc[c] = "idle"
  /\ tpc \in {"none", "starting", "get", "expire", "signal"}

\* "we want to insure that 'this' won't be accessed after this function exits":
\* nothing of a destroyed timeout is left with the thread, but, if it was
\* destroyed on the thread, its timer, which is void, and the message that will
\* stop it.  The exception is a start that was still to be handled when the
\* timeout was destroyed on the thread.
NothingLeftBehind ==
  /\ TypeOK
  /\ "torn" \notin mishaps =>
       \A o \in Timeouts : life[o] = "dead" =>
         /\ ~(tpc = "expire" /\ expiring = o)
         /\ ~StartPending(o)
         /\ mUserTimerMap[o] # NULL =>
              o \in mVoidedUserTimerSet /\ \E n \in DOMAIN messages :
                messages[n] = StopMessage(o, TimeoutThread)

\* A timeout expires by the timer of its last start, also if it was restarted,
\* stopped or created anew while timers ran: never by an earlier one, unless a
\* start is still on its way, came when a WM_TIMER was due, or was without effect.
ExpiresByLastStart ==
  [][tpc = "expire" /\ mStatus[expiring] = "Set" /\ mStatus'[expiring] = "Expired"
       /\ tpc' # "expire"
     => \/ period[timer] = posted[expiring]
        \/ StartPending(expiring)
        \/ \E c \in UsersOf(expiring) : pc[c] = "start"
        \/ expiring \in late
        \/ mishaps \cap {"lost", "refused"} # {}]_vars

\* A timer serves the timeout, and the start, it was set for: no other expires by it,
\* and none is left to a timeout that is destroyed.
TimersServeTheirStart == []NothingLeftBehind /\ ExpiresByLastStart

\* A client that destroys a timeout within the critical section that the thread
\* wants to enter to signal: both wait for ever.
Deadlocked == tpc = "signal" /\ owner \in Clients /\ pc[owner] = "destroyed"

\* A timeout that was started expires, unless it is stopped, and a destruction
\* ends, but for the deadlock and for messages that were lost or crossed.
CallsEnd ==
  /\ \A o \in Timeouts :
       mStatus[o] = "Set" ~> (mStatus[o] # "Set" \/ Deadlocked \/ mishaps # {})
  /\ \A c \in Clients :
       pc[c] = "destroyed" ~> (pc[c] = "idle" \/ Deadlocked \/ "lost" \in mishaps)
=============================================================================
