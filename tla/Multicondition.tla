--------------------------- MODULE Multicondition ---------------------------
(***************************************************************************)
(* cCSSMulticondition: a critical section, and a condition that threads    *)
(* wait for with the section left and signal with a type.  The first type  *)
(* signalled since the last wait() began is kept, the others are dropped.  *)
(*                                                                         *)
(* The operations of one such object, for the modules that use it.  The    *)
(* event is a manual one: SetEvent releases the threads that are blocked,  *)
(* and those that come until it is reset.                                  *)
(***************************************************************************)
EXTENDS Integers

CONSTANTS Threads, NULL

VARIABLES
  owner,        \* of the critical section
  mSignalType,
  mpWaitEvent,
  waiting,      \* of each thread: "no", or where it is in wait()
  \* History variables.
  first,        \* type of the first signal since each thread's wait() began
  disturbed     \* threads in wait() when another waited or set the type

condition == <<owner, mSignalType, mpWaitEvent, waiting, first, disturbed>>

kNotSetMct == 0
kToMct     == -1
Ack        == 1     \* a type of the application's
Types      == {kNotSetMct, kToMct, Ack}

Waiters == {t \in Threads : waiting[t] # "no"}

InitCondition ==
  /\ owner = NULL
  /\ mSignalType = kNotSetMct
  /\ mpWaitEvent = FALSE
  /\ waiting = [t \in Threads |-> "no"]
  /\ first = [t \in Threads |-> kNotSetMct]
  /\ disturbed = {}

Acquire(t) ==
  /\ owner = NULL
  /\ owner' = t
  /\ UNCHANGED <<mSignalType, mpWaitEvent, waiting, first, disturbed>>

Release(t) ==
  /\ owner = t /\ waiting[t] = "no"
  /\ owner' = NULL
  /\ UNCHANGED <<mSignalType, mpWaitEvent, waiting, first, disturbed>>

\* A step that enters the critical section and leaves it, or that the owner
\* takes: the section is recursive.
Inside(t) == owner \in {NULL, t} /\ UNCHANGED owner

\* Mutant of wait: the event is not reset.
wait_NoReset(t) ==
  /\ owner = t /\ waiting[t] = "no"
  /\ mSignalType' = kNotSetMct
  /\ owner' = NULL
  /\ waiting' = [waiting EXCEPT ![t] = "entering"]
  /\ first' = [first EXCEPT ![t] = kNotSetMct]
  /\ disturbed' = (disturbed \ {t}) \cup Waiters
  /\ UNCHANGED mpWaitEvent

\* wait(): type and event are reset, the section is left ...
wait(t) ==
  /\ owner = t /\ waiting[t] = "no"
  /\ mSignalType' = kNotSetMct
  /\ mpWaitEvent' = FALSE
  /\ owner' = NULL
  /\ waiting' = [waiting EXCEPT ![t] = "entering"]
  /\ first' = [first EXCEPT ![t] = kNotSetMct]
  /\ disturbed' = (disturbed \ {t}) \cup Waiters

\* ... the thread blocks unless the event is set ...
WaitBlocks(t) ==
  /\ waiting[t] = "entering"
  /\ waiting' = [waiting EXCEPT ![t] = IF mpWaitEvent THEN "woken" ELSE "blocked"]
  /\ UNCHANGED <<owner, mSignalType, mpWaitEvent, first, disturbed>>

\* ... and returns the type with the section entered again.
WaitReturns(t) ==
  /\ waiting[t] = "woken"
  /\ owner = NULL
  /\ owner' = t
  /\ waiting' = [waiting EXCEPT ![t] = "no"]
  /\ disturbed' = disturbed \ {t}
  /\ UNCHANGED <<mSignalType, mpWaitEvent, first>>

signal(t, type) ==
  /\ Inside(t)
  /\ first' = [u \in Threads |->
                 IF u \in Waiters /\ first[u] = kNotSetMct THEN type ELSE first[u]]
  /\ IF mSignalType = kNotSetMct
     THEN /\ mSignalType' = type
          /\ mpWaitEvent' = TRUE
          /\ waiting' = [u \in Threads |->
                           IF waiting[u] = "blocked" THEN "woken" ELSE waiting[u]]
     ELSE UNCHANGED <<mSignalType, mpWaitEvent, waiting>>
  /\ UNCHANGED disturbed

\* setType, and resetType with kNotSetMct: nobody is woken.
setType(t, type) ==
  /\ Inside(t)
  /\ mSignalType' = type
  /\ disturbed' = disturbed \cup Waiters
  /\ UNCHANGED <<mpWaitEvent, waiting, first>>

ConditionTypeOK ==
  /\ owner \in Threads \cup {NULL}
  /\ mSignalType \in Types
  /\ mpWaitEvent \in BOOLEAN
  /\ waiting \in [Threads -> {"no", "entering", "blocked", "woken"}]
  /\ first \in [Threads -> Types]
  /\ disturbed \subseteq Waiters

\* "used to alert a thread that is waiting for many possible events": a thread
\* in wait() is woken by the first signal since it began, also when it has left
\* the section and does not block yet, gets the type of that signal whatever is
\* signalled behind it, and is not woken by one from before.  This is so for a
\* single waiter; another thread's wait() or setType() may take the signal away.
WaiterGetsFirstSignal ==
  /\ ConditionTypeOK
  /\ \A t \in Waiters \ disturbed :
       /\ mSignalType = first[t]
       /\ IF first[t] = kNotSetMct
          THEN waiting[t] # "woken" /\ ~mpWaitEvent
          ELSE waiting[t] = "woken" \/ (waiting[t] = "entering" /\ mpWaitEvent)
=============================================================================
