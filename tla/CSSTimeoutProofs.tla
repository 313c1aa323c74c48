--------------------------- MODULE CSSTimeoutProofs --------------------------
(***************************************************************************)
(* Proofs about cCSSTimeout and the cCSSMulticondition it signals, for any *)
(* number of clients, timeouts, system timers, lives and calls.            *)
(*                                                                         *)
(* First the multicondition alone, for any threads that use one object in  *)
(* any order; then the timeouts.  Their inductive invariant: UsersKnown is *)
(* about the methods in progress, TimersKnown about the maps between       *)
(* timeouts and system timers, Numbered about which start a timer and a    *)
(* message belong to, Answered about the stop that a destructor waits for. *)
(***************************************************************************)
EXTENDS CSSTimeout, SequenceTheorems, TLAPS

\* An operation of thread t.  What is signalled is a type or a timeout.
Operation(t) ==
  \/ Acquire(t) \/ Release(t)
  \/ wait(t) \/ WaitBlocks(t) \/ WaitReturns(t)
  \/ \E type \in Types \ {kNotSetMct} : signal(t, type)
  \/ \E type \in Types : setType(t, type)

ConditionSpec ==
  InitCondition /\ [][\E t \in Threads : Operation(t)]_condition

\* The signal that a waiter u waits for, or has got.
Served(u) ==
  /\ mSignalType = first[u]
  /\ IF first[u] = kNotSetMct
     THEN waiting[u] # "woken" /\ ~mpWaitEvent
     ELSE waiting[u] = "woken" \/ (waiting[u] = "entering" /\ mpWaitEvent)

\* Operations keep the types.
LEMMA TypesKept ==
  ASSUME ConditionTypeOK, NEW t \in Threads, Operation(t)
  PROVE  ConditionTypeOK'
<1> USE DEF ConditionTypeOK, Waiters, kNotSetMct, kToMct, Ack, Types
<1>1. CASE Acquire(t) \/ Release(t)
  BY <1>1 DEF Acquire, Release
<1>2. CASE wait(t)
  BY <1>2 DEF wait
<1>3. CASE WaitBlocks(t)
  BY <1>3 DEF WaitBlocks
<1>4. CASE WaitReturns(t)
  BY <1>4 DEF WaitReturns
<1>5. ASSUME NEW type \in Types \ {kNotSetMct}, signal(t, type) PROVE ConditionTypeOK'
  <2>1. first' \in [Threads -> Types]
    BY <1>5 DEF signal
  <2>2. waiting' \in [Threads -> {"no", "entering", "blocked", "woken"}]
    BY <1>5 DEF signal
  <2>3. /\ owner' = owner /\ disturbed' = disturbed
        /\ mSignalType' \in Types /\ mpWaitEvent' \in BOOLEAN
    BY <1>5 DEF signal, Inside
  <2>4. \A u \in Threads : waiting'[u] = "no" <=> waiting[u] = "no"
    BY <1>5 DEF signal
  <2> QED
    BY <2>1, <2>2, <2>3, <2>4
<1>6. ASSUME NEW type \in Types, setType(t, type) PROVE ConditionTypeOK'
  BY <1>6 DEF setType, Inside
<1> QED
  BY <1>1, <1>2, <1>3, <1>4, <1>5, <1>6 DEF Operation

\* An operation leaves a waiter that no one disturbs its signal.
LEMMA ServedKept ==
  ASSUME WaiterGetsFirstSignal, NEW t \in Threads, Operation(t),
         NEW u \in (Waiters \ disturbed)'
  PROVE  Served(u)'
<1> USE DEF ConditionTypeOK, Waiters, kNotSetMct, kToMct, Ack, Types
<1>1. ConditionTypeOK /\ \A v \in Waiters \ disturbed : Served(v)
  BY DEF WaiterGetsFirstSignal, Served
<1>2. CASE Acquire(t) \/ Release(t)
  BY <1>1, <1>2 DEF Acquire, Release, Served
<1>3. CASE wait(t)
  BY <1>1, <1>3 DEF wait, Served
<1>4. CASE WaitBlocks(t)
  BY <1>1, <1>4 DEF WaitBlocks, Served
<1>5. CASE WaitReturns(t)
  BY <1>1, <1>5 DEF WaitReturns, Served
<1>6. ASSUME NEW type \in Types \ {kNotSetMct}, signal(t, type) PROVE Served(u)'
  <2>1. u \in Waiters \ disturbed /\ Served(u)
    BY <1>1, <1>6 DEF signal
  <2>2. first'[u] = IF first[u] = kNotSetMct THEN type ELSE first[u]
    BY <1>6, <2>1 DEF signal
  <2>3. CASE mSignalType = kNotSetMct
    <3>1. waiting'[u] = IF waiting[u] = "blocked" THEN "woken" ELSE waiting[u]
      BY <1>6, <2>1, <2>3 DEF signal
    <3> QED
      BY <1>1, <1>6, <2>1, <2>2, <2>3, <3>1 DEF signal, Served
  <2>4. CASE mSignalType # kNotSetMct
    BY <1>6, <2>1, <2>2, <2>4 DEF signal, Served
  <2> QED
    BY <2>3, <2>4
<1>7. ASSUME NEW type \in Types, setType(t, type) PROVE Served(u)'
  BY <1>1, <1>7 DEF setType
<1> QED
  BY <1>2, <1>3, <1>4, <1>5, <1>6, <1>7 DEF Operation

\* The property is inductive as it stands.
LEMMA ConditionStep ==
  WaiterGetsFirstSignal /\ [\E t \in Threads : Operation(t)]_condition
    => WaiterGetsFirstSignal'
<1>1. ASSUME WaiterGetsFirstSignal, NEW t \in Threads, Operation(t)
      PROVE  WaiterGetsFirstSignal'
  <2>1. ConditionTypeOK'
    BY <1>1, TypesKept DEF WaiterGetsFirstSignal
  <2>2. \A u \in (Waiters \ disturbed)' : Served(u)'
    BY <1>1, ServedKept
  <2> QED
    BY <2>1, <2>2 DEF WaiterGetsFirstSignal, Served
<1>2. WaiterGetsFirstSignal /\ UNCHANGED condition => WaiterGetsFirstSignal'
  BY DEF condition, WaiterGetsFirstSignal, ConditionTypeOK, Waiters
<1> QED
  BY <1>1, <1>2

\* A waiter gets the first signal since its wait began, and no earlier one.
THEOREM WaitersGetFirstSignals == ConditionSpec => []WaiterGetsFirstSignal
<1>1. InitCondition => WaiterGetsFirstSignal
  BY DEF InitCondition, WaiterGetsFirstSignal, ConditionTypeOK, Waiters, kNotSetMct,
         Types
<1> QED
  BY <1>1, ConditionStep, PTL DEF ConditionSpec

-----------------------------------------------------------------------------
\* Timeouts.

Starts   == [kind : {"start"}, mpTO : Timeouts, nth : Nat]
Stops    == [kind : {"stop"}, mpTO : Timeouts, from : Threads \cup {NULL}]
Messages == Starts \cup Stops

\* The mishaps that a post may record, besides the loss of its message.
Records == SUBSET {"crossed", "torn"}

TypeInv ==
  /\ TypeOK
  /\ mpMC \in [Timeouts -> BOOLEAN] /\ mStopEvt \in [Timeouts -> BOOLEAN]
  /\ pc \in [Clients -> {"idle", "start", "stop", "disable", "destroy", "destroyed"}]
  /\ object \in [Clients -> Timeouts \cup {NULL}]
  /\ messages \in Seq(Messages)
  /\ tpc \in {"expire", "signal"} => timer \in TimerIds /\ expiring \in Timeouts
  /\ posted \in [Timeouts -> Nat] /\ period \in [TimerIds -> Nat]
  /\ late \subseteq Timeouts

\* A method is of a living timeout, a destructor alone with a dying one; only
\* a destructor is answered.
UsersKnown ==
  /\ \A c \in Clients : pc[c] \in {"start", "stop", "disable"} => life[object[c]] = "live"
  /\ \A c \in Clients : pc[c] \in {"destroy", "destroyed"} =>
       life[object[c]] = "dying" /\ \A d \in Clients : object[d] = object[c] => d = c
  /\ \A o \in Timeouts :
       mStopEvt[o] => \E c \in Clients : object[c] = o /\ pc[c] = "destroyed"

\* A timer that runs is that of one timeout, and the maps agree on it.  One that
\* was killed when due is of a timeout that is late.
TimersKnown ==
  /\ \A i \in running : /\ mSystemTimerMap[i] \in Timeouts
                        /\ mUserTimerMap[mSystemTimerMap[i]] = i
  /\ \A o \in Timeouts : mUserTimerMap[o] # NULL =>
       mUserTimerMap[o] \in running /\ mSystemTimerMap[mUserTimerMap[o]] = o
  /\ \A i \in due : mSystemTimerMap[i] # NULL =>
       mUserTimerMap[mSystemTimerMap[i]] = i \/ mSystemTimerMap[i] \in late

StartComing(o) == StartPending(o) \/ \E c \in UsersOf(o) : pc[c] = "start"

\* Start n is the last one of o, but for one on its way or without effect.
LastStart(o, n) ==
  n = posted[o] \/ StartComing(o) \/ mishaps \cap {"lost", "refused"} # {}

\* The last start that is queued for a timeout is the last one posted.
QueueNumbered ==
  \A n \in DOMAIN messages : messages[n].kind = "start" =>
    \/ messages[n].nth = posted[messages[n].mpTO]
    \/ \E m \in DOMAIN messages : /\ m > n /\ messages[m].kind = "start"
                                  /\ messages[m].mpTO = messages[n].mpTO
    \/ "lost" \in mishaps

\* A timer that runs, or that a timeout expires by, is of the last start.
Numbered ==
  /\ QueueNumbered
  /\ \A o \in Timeouts : mUserTimerMap[o] # NULL => LastStart(o, period[mUserTimerMap[o]])
  /\ tpc = "expire" => LastStart(expiring, period[timer]) \/ expiring \in late

\* The thread has no more to do with o.
Gone(o) == mUserTimerMap[o] = NULL /\ ~StartPending(o) /\ ~(tpc = "expire" /\ expiring = o)

\* The stop of a destructor is the last message about its timeout; when it is
\* answered the thread has nothing of it.
Answered ==
  /\ \A n \in DOMAIN messages : messages[n].kind = "stop" /\ messages[n].from \in Clients =>
       /\ object[messages[n].from] = messages[n].mpTO
       /\ pc[messages[n].from] = "destroyed"
       /\ ~mStopEvt[messages[n].mpTO]
       /\ \A m \in DOMAIN messages : m > n => messages[m].mpTO # messages[n].mpTO
  /\ \A o \in Timeouts : mStopEvt[o] => Gone(o)

\* The inductive invariant.
IInv ==
  /\ WaiterGetsFirstSignal
  /\ TypeInv /\ UsersKnown /\ TimersKnown /\ Numbered /\ Answered /\ NothingLeftBehind

-----------------------------------------------------------------------------
\* The queue of messages.

\* What a message says.
LEMMA MessageIs ==
  ASSUME NEW m \in Messages
  PROVE  /\ m.kind \in {"start", "stop"} /\ m.mpTO \in Timeouts
         /\ m.kind = "start" => m.nth \in Nat
         /\ m.kind = "stop" => m.from \in Threads \cup {NULL}
BY DEF Messages, Starts, Stops

\* The messages of a start and of a stop.
LEMMA PostedIs ==
  ASSUME TypeInv, NEW o \in Timeouts
  PROVE  /\ StartMessage(o) \in Messages /\ StartMessage(o).kind = "start"
         /\ StartMessage(o).mpTO = o /\ StartMessage(o).nth = posted[o] + 1
         /\ \A t \in Threads \cup {NULL} :
              /\ StopMessage(o, t) \in Messages /\ StopMessage(o, t).kind = "stop"
              /\ StopMessage(o, t).mpTO = o /\ StopMessage(o, t).from = t
BY DEF TypeInv, Messages, Starts, Stops, StartMessage, StopMessage

\* The places of the queue.
LEMMA QueueIs ==
  ASSUME TypeInv
  PROVE  \E l \in Nat : /\ l = Len(messages) /\ DOMAIN messages = 1 .. l
                        /\ \A n \in 1 .. l : messages[n] \in Messages
<1>1. messages \in Seq(Messages)
  BY DEF TypeInv
<1> QED
  BY <1>1, LenProperties, ElementOfSeq

\* A message is put at the end, or lost.
LEMMA PostIs ==
  ASSUME TypeInv, NEW m \in Messages, NEW more, Post(m, more)
  PROVE  \E l \in Nat :
           /\ DOMAIN messages = 1 .. l
           /\ messages' \in Seq(Messages)
           /\ mishaps \subseteq mishaps' /\ more \subseteq mishaps'
           /\ \/ messages' = messages /\ "lost" \in mishaps' /\ tpc \in {"none", "starting"}
              \/ /\ DOMAIN messages' = 1 .. l + 1 /\ messages'[l + 1] = m
                 /\ \A n \in 1 .. l : messages'[n] = messages[n]
                 /\ mishaps' = mishaps \cup more
<1>1. messages \in Seq(Messages)
  BY DEF TypeInv
<1>2. PICK l \in Nat : l = Len(messages) /\ DOMAIN messages = 1 .. l
  BY QueueIs
<1>3. CASE tpc \in {"none", "starting"}
  BY <1>1, <1>2, <1>3 DEF Post
<1>4. CASE tpc \notin {"none", "starting"}
  <2>1. messages' = Append(messages, m) /\ mishaps' = mishaps \cup more
    BY <1>4 DEF Post
  <2>2. /\ Append(messages, m) \in Seq(Messages)
        /\ Len(Append(messages, m)) = l + 1
        /\ \A n \in 1 .. l : Append(messages, m)[n] = messages[n]
        /\ Append(messages, m)[l + 1] = m
    BY <1>1, <1>2, AppendProperties
  <2>3. DOMAIN messages' = 1 .. l + 1
    BY <2>1, <2>2, LenProperties
  <2> QED
    BY <1>2, <2>1, <2>2, <2>3
<1> QED
  BY <1>3, <1>4

\* The thread gets the first message.
LEMMA GotIs ==
  ASSUME TypeInv, NEW kind, Got(kind)
  PROVE  \E l \in Nat :
           /\ DOMAIN messages = 1 .. l + 1 /\ messages[1] = Head(messages)
           /\ Head(messages) \in Messages /\ Head(messages).kind = kind
           /\ messages' \in Seq(Messages) /\ DOMAIN messages' = 1 .. l
           /\ \A n \in 1 .. l : messages'[n] = messages[n + 1]
<1>1. messages \in Seq(Messages) /\ messages # <<>>
  BY DEF TypeInv, Got
<1>2. PICK k \in Nat : k = Len(messages) /\ DOMAIN messages = 1 .. k
  BY QueueIs
<1>3. k # 0
  BY <1>1, <1>2, EmptySeq
<1>4. PICK l \in Nat : l + 1 = k /\ k - 1 = l
  BY <1>3
<1>5. /\ Head(messages) \in Messages /\ Head(messages) = messages[1]
      /\ Tail(messages) \in Seq(Messages) /\ Len(Tail(messages)) = k - 1
      /\ \A n \in 1 .. k - 1 : Tail(messages)[n] = messages[n + 1]
  BY <1>1, <1>2, HeadTailProperties
<1>6. messages' = Tail(messages) /\ Head(messages).kind = kind
  BY DEF Got
<1>7. DOMAIN messages' = 1 .. l
  BY <1>4, <1>5, <1>6, LenProperties
<1> QED
  BY <1>2, <1>4, <1>5, <1>6, <1>7

-----------------------------------------------------------------------------
\* The multicondition is used as it may be.
LEMMA ConditionUsed ==
  ASSUME Next
  PROVE  (\E t \in Threads : Operation(t)) \/ UNCHANGED condition
<1> USE DEF Next, Clients, Finishes, Thread
<1>1. TimeoutThread \in Threads /\ kToMct \in Types \ {kNotSetMct}
      /\ Ack \in Types \ {kNotSetMct} /\ kNotSetMct \in Types
  BY TimeoutAssumption DEF Types, kToMct, Ack, kNotSetMct
<1>2. ASSUME NEW c \in Clients, UseCondition(c) PROVE Operation(c)
  BY <1>1, <1>2 DEF UseCondition, Operation
<1>3. ASSUME NEW c \in Clients, ConditionGoesOn(c) PROVE Operation(c)
  BY <1>3 DEF ConditionGoesOn, Operation
<1>4. ASSUME Signal PROVE Operation(TimeoutThread)
  BY <1>1, <1>4 DEF Signal, Operation
<1>5. ASSUME NEW c \in Clients, NEW o \in Timeouts,
             \/ Construct(c, o) \/ init(c, o) \/ start(c, o) \/ stop(c, o)
             \/ disable(c, o) \/ destroy(c, o)
      PROVE  UNCHANGED condition
  BY <1>5 DEF Construct, init, start, stop, disable, destroy, Begins
<1>6. ASSUME NEW c \in Clients, Finishes(c) PROVE UNCHANGED condition
  BY <1>6 DEF DisableStops, PostStart, PostStop, PostDestroy, DestroyReturns
<1>7. ASSUME NEW i \in TimerIds, TakeTimer(i) \/ Elapses(i) PROVE UNCHANGED condition
  BY <1>7 DEF TakeTimer, Elapses
<1>8. ASSUME ThreadStarts \/ HandleStartTimer \/ HandleStopTimer \/ OkToExpire
      PROVE  UNCHANGED condition
  BY <1>8 DEF ThreadStarts, HandleStartTimer, HandleStopTimer, OkToExpire
<1>9. ASSUME NEW o \in Timeouts, DestroyOnThread(o) PROVE UNCHANGED condition
  BY <1>9 DEF DestroyOnThread
<1> QED
  BY <1>1, <1>2, <1>3, <1>4, <1>5, <1>6, <1>7, <1>8, <1>9

\* Steps that leave the timeouts, the messages and the timers as they are.
Aside ==
  /\ UNCHANGED <<life, mStopEvt, pc, object, messages, maps, system, timer, expiring, past>>
  /\ tpc' # "expire" \/ tpc' = tpc

\* The steps that are aside.
LEMMA AsideIs ==
  /\ \A c \in Clients, o \in Timeouts : init(c, o) => Aside
  /\ \A c \in Clients : UseCondition(c) \/ ConditionGoesOn(c) => Aside
  /\ ThreadStarts \/ OkToExpire \/ Signal \/ UNCHANGED vars => Aside
<1> USE DEF Aside, vars, objects, client, maps, system, thread, past
<1>1. ASSUME NEW c \in Clients, NEW o \in Timeouts, init(c, o) PROVE Aside
  BY <1>1 DEF init
<1>2. ASSUME NEW c \in Clients, UseCondition(c) \/ ConditionGoesOn(c) PROVE Aside
  BY <1>2 DEF UseCondition, ConditionGoesOn
<1>3. ASSUME ThreadStarts \/ OkToExpire \/ Signal \/ UNCHANGED vars PROVE Aside
  <2>1. CASE ThreadStarts
    BY <2>1 DEF ThreadStarts
  <2>2. CASE OkToExpire
    BY <2>2 DEF OkToExpire
  <2>3. CASE Signal
    BY <2>3 DEF Signal
  <2>4. CASE UNCHANGED vars
    BY <2>4
  <2> QED
    BY <1>3, <2>1, <2>2, <2>3, <2>4
<1> QED
  BY <1>1, <1>2, <1>3

-----------------------------------------------------------------------------
\* The types.

\* At the start the types are right.
LEMMA TypesInit == Init => TypeInv
<1> SUFFICES ASSUME Init PROVE TypeInv
  OBVIOUS
<1>1. messages \in Seq(Messages)
  BY EmptySeq DEF Init
<1> QED
  BY <1>1, TimeoutAssumption DEF Init, TypeInv, TypeOK

\* A message that is posted keeps the queue's type.
LEMMA PostTypes ==
  ASSUME TypeInv, NEW o \in Timeouts, NEW m, NEW more, Post(m, more),
         \/ m = StartMessage(o)
         \/ \E t \in Threads \cup {NULL} : m = StopMessage(o, t)
  PROVE  messages' \in Seq(Messages)
<1>1. m \in Messages
  BY PostedIs
<1> QED
  BY <1>1, PostIs

\* They stay right.
LEMMA TimeoutTypes ==
  ASSUME TypeInv, Next
  PROVE  TypeInv'
<1> USE TimeoutAssumption
    DEF TypeInv, TypeOK, vars, objects, client, maps, system, thread, bounds, past
<1>1. ASSUME NEW c \in Clients, NEW o \in Timeouts, Construct(c, o) PROVE TypeInv'
  BY <1>1 DEF Construct
<1>2. ASSUME NEW c \in Clients, NEW o \in Timeouts, init(c, o) PROVE TypeInv'
  BY <1>2 DEF init
<1>3. ASSUME NEW c \in Clients, NEW o \in Timeouts,
             start(c, o) \/ stop(c, o) \/ disable(c, o) \/ destroy(c, o)
      PROVE  TypeInv'
  <2>1. PICK status \in {"Set", "Expired", "Disable"},
             p \in {"start", "stop", "disable", "destroy"} : Begins(c, o, status, p)
    BY <1>3 DEF start, stop, disable, destroy
  <2>2. life' \in [Timeouts -> {"none", "live", "dying", "dead"}]
    BY <1>3 DEF start, stop, disable, destroy
  <2>3. /\ pc' \in [Clients -> {"idle", "start", "stop", "disable", "destroy", "destroyed"}]
        /\ object' \in [Clients -> Timeouts \cup {NULL}]
        /\ \A d \in Clients : object'[d] = NULL <=> pc'[d] = "idle"
    BY <2>1 DEF Begins, Goto
  <2> QED
    BY <2>1, <2>2, <2>3 DEF Begins
<1>4. ASSUME NEW c \in Clients, DisableStops(c) PROVE TypeInv'
  BY <1>4 DEF DisableStops, Goto
<1>5. ASSUME NEW c \in Clients, PostStart(c) PROVE TypeInv'
  <2>1. object[c] \in Timeouts
    BY <1>5 DEF PostStart
  <2>2. messages' \in Seq(Messages)
    BY <1>5, <2>1, PostTypes DEF PostStart
  <2> QED
    BY <1>5, <2>1, <2>2 DEF PostStart, Goto
<1>6. ASSUME NEW c \in Clients, PostStop(c) \/ PostDestroy(c) PROVE TypeInv'
  <2>1. object[c] \in Timeouts
    BY <1>6 DEF PostStop, PostDestroy
  <2>2. messages' \in Seq(Messages)
    <3>1. CASE PostStop(c)
      BY <2>1, <3>1, PostTypes DEF PostStop
    <3>2. CASE PostDestroy(c)
      <4>1. c \in Threads \cup {NULL}
        BY DEF Clients
      <4>2. Post(StopMessage(object[c], c), {})
        BY <3>2 DEF PostDestroy
      <4> QED
        BY <2>1, <4>1, <4>2, PostTypes
    <3> QED
      BY <1>6, <3>1, <3>2
  <2> QED
    <3>1. CASE PostStop(c)
      BY <2>1, <2>2, <3>1 DEF PostStop, Goto
    <3>2. CASE PostDestroy(c)
      BY <2>1, <2>2, <3>2 DEF PostDestroy, Goto
    <3> QED
      BY <1>6, <3>1, <3>2
<1>7. ASSUME NEW c \in Clients, DestroyReturns(c) PROVE TypeInv'
  BY <1>7 DEF DestroyReturns, Goto
<1>8. ASSUME NEW c \in Clients, UseCondition(c) \/ ConditionGoesOn(c) PROVE TypeInv'
  BY <1>8 DEF UseCondition, ConditionGoesOn
<1>9. CASE ThreadStarts
  BY <1>9 DEF ThreadStarts
<1>10. CASE HandleStartTimer
  <2>1. PICK o \in Timeouts, n \in Nat : o = Head(messages).mpTO /\ n = Head(messages).nth
    BY <1>10, GotIs, MessageIs DEF HandleStartTimer
  <2>2. messages' \in Seq(Messages)
    BY <1>10, GotIs DEF HandleStartTimer
  <2>3. CASE mishaps' = mishaps \cup {"refused"}
             /\ UNCHANGED <<running, mUserTimerMap, mSystemTimerMap, period, late>>
    BY <1>10, <2>2, <2>3 DEF HandleStartTimer
  <2>4. ASSUME NEW new \in TimerIds,
               /\ running' = KillPrevious(o, new)
               /\ mUserTimerMap' = [mUserTimerMap EXCEPT ![o] = new]
               /\ mSystemTimerMap' = [mSystemTimerMap EXCEPT ![new] = o]
               /\ period' = [period EXCEPT ![new] = n]
               /\ late' = IF mUserTimerMap[o] \in due THEN late \cup {o} ELSE late
        PROVE  TypeInv'
    BY <1>10, <2>2, <2>4 DEF HandleStartTimer, KillPrevious
  <2> QED
    BY <1>10, <2>1, <2>3, <2>4 DEF HandleStartTimer
<1>11. CASE HandleStopTimer
  <2>1. PICK o \in Timeouts : o = Head(messages).mpTO
    BY <1>11, GotIs, MessageIs DEF HandleStopTimer
  <2>2. messages' \in Seq(Messages)
    BY <1>11, GotIs DEF HandleStopTimer
  <2>3. mStopEvt' \in [Timeouts -> BOOLEAN]
    BY <1>11, <2>1 DEF HandleStopTimer, Answer
  <2> QED
    BY <1>11, <2>1, <2>2, <2>3 DEF HandleStopTimer, ForgetTimer
<1>12. ASSUME NEW i \in TimerIds, TakeTimer(i) PROVE TypeInv'
  <2>1. CASE mSystemTimerMap[i] = NULL
    BY <1>12, <2>1 DEF TakeTimer
  <2>2. ASSUME NEW o \in Timeouts, mSystemTimerMap[i] = o PROVE TypeInv'
    <3>1. /\ running' \subseteq TimerIds
          /\ mUserTimerMap' \in [Timeouts -> TimerIds \cup {NULL}]
          /\ mSystemTimerMap' \in [TimerIds -> Timeouts \cup {NULL}]
      <4>1. ForgetTimer(o) \/ UNCHANGED <<running, mUserTimerMap, mSystemTimerMap>>
        BY <1>12, <2>2 DEF TakeTimer
      <4>2. CASE ForgetTimer(o)
        BY <4>2 DEF ForgetTimer
      <4> QED
        BY <4>1, <4>2
    <3>2. /\ mVoidedUserTimerSet' \subseteq Timeouts /\ due' \subseteq TimerIds
          /\ timer' \in TimerIds
      BY <1>12, <2>2 DEF TakeTimer
    <3>3. tpc' \in {"get", "expire"} /\ (tpc' = "expire" => expiring' \in Timeouts)
      BY <1>12, <2>2 DEF TakeTimer
    <3>4. UNCHANGED <<objects, client, messages, past>>
      BY <1>12 DEF TakeTimer
    <3> QED
      BY <3>1, <3>2, <3>3, <3>4
  <2> QED
    BY <2>1, <2>2
<1>13. CASE OkToExpire
  BY <1>13 DEF OkToExpire
<1>14. CASE Signal
  BY <1>14 DEF Signal
<1>15. ASSUME NEW o \in Timeouts, DestroyOnThread(o) PROVE TypeInv'
  <2>1. messages' \in Seq(Messages)
    BY <1>15, PostTypes DEF DestroyOnThread
  <2> QED
    BY <1>15, <2>1 DEF DestroyOnThread
<1>16. ASSUME NEW i \in TimerIds, Elapses(i) PROVE TypeInv'
  BY <1>16 DEF Elapses
<1> QED
  BY <1>1, <1>2, <1>3, <1>4, <1>5, <1>6, <1>7, <1>8, <1>9, <1>10, <1>11, <1>12, <1>13,
     <1>14, <1>15, <1>16 DEF Next, Finishes, Thread

-----------------------------------------------------------------------------
\* The methods in progress.

\* Where each step leaves them.
LEMMA UsersKept ==
  ASSUME TypeInv, UsersKnown, Answered, Next
  PROVE  UsersKnown'
<1> USE TimeoutAssumption
    DEF UsersKnown, vars, objects, client, maps, system, thread, bounds, past
<1>0. /\ pc \in [Clients -> {"idle", "start", "stop", "disable", "destroy", "destroyed"}]
      /\ object \in [Clients -> Timeouts \cup {NULL}]
      /\ \A c \in Clients : object[c] = NULL <=> pc[c] = "idle"
      /\ life \in [Timeouts -> {"none", "live", "dying", "dead"}]
      /\ mStopEvt \in [Timeouts -> BOOLEAN]
  BY DEF TypeInv, TypeOK
<1>1. ASSUME NEW c \in Clients, NEW o \in Timeouts, Construct(c, o) PROVE UsersKnown'
  BY <1>0, <1>1 DEF Construct
<1>2. ASSUME Aside PROVE UsersKnown'
  BY <1>0, <1>2 DEF Aside
<1>3. ASSUME NEW c \in Clients, NEW o \in Timeouts,
             start(c, o) \/ stop(c, o) \/ disable(c, o)
      PROVE  UsersKnown'
  <2>1. PICK p \in {"start", "stop", "disable"} :
          /\ pc[c] = "idle" /\ life[o] = "live"
          /\ pc' = [pc EXCEPT ![c] = p] /\ object' = [object EXCEPT ![c] = o]
          /\ UNCHANGED <<life, mStopEvt>>
    BY <1>3 DEF start, stop, disable, Begins, Goto, Idle
  <2> QED
    BY <1>0, <2>1
<1>4. ASSUME NEW c \in Clients, NEW o \in Timeouts, destroy(c, o) PROVE UsersKnown'
  <2>1. /\ pc[c] = "idle" /\ life[o] = "live"
        /\ pc' = [pc EXCEPT ![c] = "destroy"] /\ object' = [object EXCEPT ![c] = o]
        /\ life' = [life EXCEPT ![o] = "dying"] /\ UNCHANGED mStopEvt
        /\ \A d \in Clients : object[d] # o
    BY <1>4 DEF destroy, Begins, Goto, Idle, UsersOf
  <2> QED
    BY <1>0, <2>1
<1>5. ASSUME NEW c \in Clients, DisableStops(c) PROVE UsersKnown'
  BY <1>0, <1>5 DEF DisableStops, Goto
<1>6. ASSUME NEW c \in Clients, PostStart(c) \/ PostStop(c) PROVE UsersKnown'
  BY <1>0, <1>6 DEF PostStart, PostStop, Goto
<1>7. ASSUME NEW c \in Clients, PostDestroy(c) PROVE UsersKnown'
  BY <1>0, <1>7 DEF PostDestroy, Goto
<1>8. ASSUME NEW c \in Clients, DestroyReturns(c) PROVE UsersKnown'
  BY <1>0, <1>8 DEF DestroyReturns, Goto
<1>9. CASE HandleStartTimer
  BY <1>0, <1>9 DEF HandleStartTimer
<1>10. CASE HandleStopTimer
  <2>1. PICK l \in Nat : 1 \in 1 .. l + 1 /\ DOMAIN messages = 1 .. l + 1
                         /\ messages[1] = Head(messages)
                         /\ Head(messages) \in Messages /\ Head(messages).kind = "stop"
    BY <1>10, GotIs DEF HandleStopTimer
  <2>2. PICK o \in Timeouts, from \in Threads \cup {NULL} :
          o = Head(messages).mpTO /\ from = Head(messages).from
    BY <2>1, MessageIs
  <2>3. from \in Clients => object[from] = o /\ pc[from] = "destroyed"
    BY <2>1, <2>2 DEF Answered
  <2>4. mStopEvt' = IF from \in Clients THEN [mStopEvt EXCEPT ![o] = TRUE] ELSE mStopEvt
    BY <1>10, <2>2 DEF HandleStopTimer, Answer
  <2>5. UNCHANGED <<life, pc, object>>
    BY <1>10 DEF HandleStopTimer
  <2> QED
    BY <1>0, <2>3, <2>4, <2>5
<1>11. ASSUME NEW i \in TimerIds, TakeTimer(i) \/ Elapses(i) PROVE UsersKnown'
  BY <1>0, <1>11 DEF TakeTimer, Elapses
<1>12. ASSUME NEW o \in Timeouts, DestroyOnThread(o) PROVE UsersKnown'
  <2>1. /\ life' = [life EXCEPT ![o] = "dead"] /\ life[o] = "live"
        /\ \A d \in Clients : object[d] # o
        /\ UNCHANGED <<pc, object, mStopEvt>>
    BY <1>12 DEF DestroyOnThread, UsersOf
  <2> QED
    BY <1>0, <2>1
<1> QED
  BY <1>1, <1>2, <1>3, <1>4, <1>5, <1>6, <1>7, <1>8, <1>9, <1>10, <1>11, <1>12, AsideIs
     DEF Next, Finishes, Thread

-----------------------------------------------------------------------------
\* The timers.

\* A timeout gives up its timer.
LEMMA Forgotten ==
  ASSUME TypeInv, TimersKnown, NEW o \in Timeouts, ForgetTimer(o),
         due' \subseteq due, UNCHANGED late
  PROVE  TimersKnown'
<1> USE TimeoutAssumption DEF TimersKnown, TypeInv, TypeOK
<1>1. PICK old \in TimerIds \cup {NULL} : old = mUserTimerMap[o]
  OBVIOUS
<1>2. /\ running' = running \ {old}
      /\ mUserTimerMap' = [mUserTimerMap EXCEPT ![o] = NULL]
      /\ mSystemTimerMap' = [i \in TimerIds |-> IF i = old THEN NULL ELSE mSystemTimerMap[i]]
  BY <1>1 DEF ForgetTimer
<1>3. \A i \in running' : /\ mSystemTimerMap'[i] \in Timeouts
                          /\ mUserTimerMap'[mSystemTimerMap'[i]] = i
  BY <1>1, <1>2
<1>4. \A p \in Timeouts : mUserTimerMap'[p] # NULL =>
        mUserTimerMap'[p] \in running' /\ mSystemTimerMap'[mUserTimerMap'[p]] = p
  BY <1>1, <1>2
<1>5. ASSUME NEW i \in due', mSystemTimerMap'[i] # NULL
      PROVE  mUserTimerMap'[mSystemTimerMap'[i]] = i \/ mSystemTimerMap'[i] \in late'
  <2>1. i \in TimerIds /\ i \in due /\ i # old /\ mSystemTimerMap'[i] = mSystemTimerMap[i]
    BY <1>2, <1>5
  <2>2. PICK p \in Timeouts : p = mSystemTimerMap[i]
    BY <1>5, <2>1
  <2>3. mUserTimerMap[p] = i \/ p \in late
    BY <2>1, <2>2
  <2> QED
    BY <1>1, <1>2, <2>1, <2>2, <2>3
<1> QED
  BY <1>3, <1>4, <1>5

\* The maps agree after every step.
LEMMA TimersKept ==
  ASSUME TypeInv, TimersKnown, Next
  PROVE  TimersKnown'
<1> USE TimeoutAssumption
    DEF vars, objects, client, maps, system, thread, bounds, past
<1>1. ASSUME UNCHANGED <<maps, system, late>> PROVE TimersKnown'
  BY <1>1 DEF TimersKnown
<1>2. ASSUME NEW c \in Clients, NEW o \in Timeouts,
             \/ Construct(c, o) \/ start(c, o) \/ stop(c, o) \/ disable(c, o)
             \/ destroy(c, o)
      PROVE  UNCHANGED <<maps, system, late>>
  BY <1>2 DEF Construct, start, stop, disable, destroy, Begins
<1>3. ASSUME NEW c \in Clients, Finishes(c) PROVE UNCHANGED <<maps, system, late>>
  BY <1>3 DEF Finishes, DisableStops, PostStart, PostStop, PostDestroy, DestroyReturns
<1>4. ASSUME Aside PROVE UNCHANGED <<maps, system, late>>
  BY <1>4 DEF Aside
<1>5. CASE HandleStartTimer
  <2>1. PICK o \in Timeouts : o = Head(messages).mpTO
    BY <1>5, GotIs, MessageIs DEF HandleStartTimer
  <2>2. CASE UNCHANGED <<running, mUserTimerMap, mSystemTimerMap, late>>
    BY <1>5, <2>2 DEF HandleStartTimer, TimersKnown
  <2>3. ASSUME NEW new \in TimerIds \ (running \cup due),
               /\ running' = KillPrevious(o, new)
               /\ mUserTimerMap' = [mUserTimerMap EXCEPT ![o] = new]
               /\ mSystemTimerMap' = [mSystemTimerMap EXCEPT ![new] = o]
               /\ late' = IF mUserTimerMap[o] \in due THEN late \cup {o} ELSE late
        PROVE  TimersKnown'
    <3> USE DEF TimersKnown, TypeInv, TypeOK, KillPrevious
    <3>1. \A i \in running' : /\ mSystemTimerMap'[i] \in Timeouts
                              /\ mUserTimerMap'[mSystemTimerMap'[i]] = i
      BY <2>3
    <3>2. \A p \in Timeouts : mUserTimerMap'[p] # NULL =>
            mUserTimerMap'[p] \in running' /\ mSystemTimerMap'[mUserTimerMap'[p]] = p
      BY <2>3
    <3>3. due' = due
      BY <1>5 DEF HandleStartTimer
    <3>4. \A i \in due : mSystemTimerMap'[i] # NULL =>
            mUserTimerMap'[mSystemTimerMap'[i]] = i \/ mSystemTimerMap'[i] \in late'
      BY <2>3
    <3> QED
      BY <3>1, <3>2, <3>3, <3>4
  <2> QED
    BY <1>5, <2>1, <2>2, <2>3 DEF HandleStartTimer
<1>6. CASE HandleStopTimer
  <2>1. PICK o \in Timeouts : o = Head(messages).mpTO
    BY <1>6, GotIs, MessageIs DEF HandleStopTimer
  <2> QED
    BY <1>6, <2>1, Forgotten DEF HandleStopTimer
<1>7. ASSUME NEW i \in TimerIds, TakeTimer(i) PROVE TimersKnown'
  <2>1. due' = due \ {i} /\ UNCHANGED late
    BY <1>7 DEF TakeTimer
  <2>2. CASE mSystemTimerMap[i] = NULL
    BY <1>7, <2>1, <2>2 DEF TakeTimer, TimersKnown, TypeInv, TypeOK
  <2>3. ASSUME NEW o \in Timeouts, mSystemTimerMap[i] = o PROVE TimersKnown'
    <3>1. CASE mUserTimerMap[o] = NULL
      BY <1>7, <2>1, <2>3, <3>1 DEF TakeTimer, TimersKnown
    <3>2. CASE mUserTimerMap[o] # NULL
      BY <1>7, <2>1, <2>3, <3>2, Forgotten DEF TakeTimer
    <3> QED
      BY <3>1, <3>2
  <2> QED
    BY <2>2, <2>3 DEF TypeInv, TypeOK
<1>8. ASSUME NEW o \in Timeouts, DestroyOnThread(o) PROVE TimersKnown'
  BY <1>8 DEF DestroyOnThread, TimersKnown
<1>9. ASSUME NEW i \in TimerIds, Elapses(i) PROVE TimersKnown'
  BY <1>9 DEF Elapses, TimersKnown
<1> QED
  BY <1>1, <1>2, <1>3, <1>4, <1>5, <1>6, <1>7, <1>8, <1>9, AsideIs DEF Next, Thread

-----------------------------------------------------------------------------
\* The starts.

\* What a message that is posted makes of the starts in the queue ...
LEMMA PendingPosted ==
  ASSUME TypeInv, NEW m \in Messages, NEW more, Post(m, more), NEW o \in Timeouts
  PROVE  /\ StartPending(o) => StartPending(o)'
         /\ m.kind = "start" /\ m.mpTO = o => StartPending(o)' \/ "lost" \in mishaps'
         /\ StartPending(o)' => StartPending(o) \/ (m.kind = "start" /\ m.mpTO = o)
<1>1. PICK l \in Nat :
        /\ DOMAIN messages = 1 .. l
        /\ \/ messages' = messages /\ "lost" \in mishaps'
           \/ /\ DOMAIN messages' = 1 .. l + 1 /\ messages'[l + 1] = m
              /\ \A n \in 1 .. l : messages'[n] = messages[n]
  BY PostIs
<1>2. \A n \in 1 .. l + 1 : n \in 1 .. l \/ n = l + 1
  OBVIOUS
<1>3. \A n \in 1 .. l : n \in 1 .. l + 1
  OBVIOUS
<1> QED
  BY <1>1, <1>2, <1>3 DEF StartPending

\* ... and one that the thread gets.
LEMMA PendingGot ==
  ASSUME TypeInv, NEW kind, Got(kind), NEW o \in Timeouts
  PROVE  /\ StartPending(o)' => StartPending(o)
         /\ StartPending(o) =>
              StartPending(o)' \/ (kind = "start" /\ Head(messages).mpTO = o)
<1>1. PICK l \in Nat :
        /\ DOMAIN messages = 1 .. l + 1 /\ messages[1] = Head(messages)
        /\ Head(messages).kind = kind /\ DOMAIN messages' = 1 .. l
        /\ \A n \in 1 .. l : messages'[n] = messages[n + 1]
  BY GotIs
<1>2. ASSUME StartPending(o)' PROVE StartPending(o)
  <2>1. PICK n \in 1 .. l : messages'[n].kind = "start" /\ messages'[n].mpTO = o
    BY <1>1, <1>2 DEF StartPending
  <2>2. n + 1 \in 1 .. l + 1
    OBVIOUS
  <2> QED
    BY <1>1, <2>1, <2>2 DEF StartPending
<1>3. ASSUME StartPending(o), ~(kind = "start" /\ Head(messages).mpTO = o)
      PROVE  StartPending(o)'
  <2>1. PICK n \in 1 .. l + 1 : messages[n].kind = "start" /\ messages[n].mpTO = o
    BY <1>1, <1>3 DEF StartPending
  <2>2. n # 1
    BY <1>1, <1>3, <2>1
  <2>3. PICK k \in 1 .. l : k + 1 = n
    <3>1. n - 1 \in 1 .. l /\ (n - 1) + 1 = n
      BY <2>2
    <3> QED
      BY <3>1
  <2> QED
    BY <1>1, <2>1, <2>3 DEF StartPending
<1> QED
  BY <1>2, <1>3

\* The last start stays so, but when the thread handles it.
LEMMA LastStartKept ==
  ASSUME TypeInv, Next, NEW o \in Timeouts, NEW n \in Nat, LastStart(o, n)
  PROVE  LastStart(o, n)' \/ (HandleStartTimer /\ Head(messages).mpTO = o)
<1> USE DEF LastStart, StartComing, UsersOf, vars, objects, client, maps, system, thread,
            bounds, past
<1>0. /\ pc \in [Clients -> {"idle", "start", "stop", "disable", "destroy", "destroyed"}]
      /\ object \in [Clients -> Timeouts \cup {NULL}]
      /\ \A c \in Clients : object[c] = NULL <=> pc[c] = "idle"
      /\ posted \in [Timeouts -> Nat]
  BY DEF TypeInv, TypeOK
<1>1. ASSUME UNCHANGED <<posted, mishaps>>, StartPending(o) => StartPending(o)',
             \A c \in Clients : pc[c] = "start" => pc'[c] = "start" /\ object'[c] = object[c]
      PROVE  LastStart(o, n)'
  BY <1>1
<1>2. ASSUME UNCHANGED messages PROVE StartPending(o) => StartPending(o)'
  BY <1>2 DEF StartPending
<1>3. ASSUME NEW c \in Clients, NEW p \in Timeouts, Construct(c, p) PROVE LastStart(o, n)'
  BY <1>1, <1>2, <1>3 DEF Construct
<1>4. ASSUME Aside PROVE LastStart(o, n)'
  BY <1>1, <1>2, <1>4 DEF Aside
<1>5. ASSUME NEW c \in Clients, NEW p \in Timeouts,
             start(c, p) \/ stop(c, p) \/ disable(c, p) \/ destroy(c, p)
      PROVE  LastStart(o, n)'
  <2>1. PICK status, at : Begins(c, p, status, at)
    BY <1>5 DEF start, stop, disable, destroy
  <2>2. \A d \in Clients : pc[d] = "start" => pc'[d] = "start" /\ object'[d] = object[d]
    BY <1>0, <2>1 DEF Begins, Idle, Goto
  <2>3. UNCHANGED <<posted, mishaps, messages>>
    BY <2>1 DEF Begins
  <2> QED
    BY <1>1, <1>2, <2>2, <2>3
<1>6. ASSUME NEW c \in Clients, DisableStops(c) \/ DestroyReturns(c) PROVE LastStart(o, n)'
  <2>1. \A d \in Clients : pc[d] = "start" => pc'[d] = "start" /\ object'[d] = object[d]
    BY <1>0, <1>6 DEF DisableStops, DestroyReturns, Goto
  <2>2. UNCHANGED <<posted, mishaps, messages>>
    BY <1>6 DEF DisableStops, DestroyReturns
  <2> QED
    BY <1>1, <1>2, <2>1, <2>2
<1>7. ASSUME NEW c \in Clients, PostStart(c) PROVE LastStart(o, n)'
  <2>1. PICK p \in Timeouts : p = object[c]
    BY <1>0, <1>7 DEF PostStart
  <2>2. /\ StartMessage(p) \in Messages /\ StartMessage(p).kind = "start"
        /\ StartMessage(p).mpTO = p
    BY PostedIs
  <2>3. Post(StartMessage(p), {}) /\ posted' = [posted EXCEPT ![p] = @ + 1]
    BY <1>7, <2>1 DEF PostStart
  <2>4. /\ StartPending(o) => StartPending(o)'
        /\ p = o => StartPending(o)' \/ "lost" \in mishaps'
        /\ mishaps \subseteq mishaps'
    BY <2>2, <2>3, PendingPosted, PostIs
  <2>5. \A d \in Clients \ {c} : pc'[d] = pc[d] /\ object'[d] = object[d]
    BY <1>0, <1>7 DEF PostStart, Goto
  <2> QED
    BY <1>0, <2>1, <2>3, <2>4, <2>5
<1>8. ASSUME NEW c \in Clients, PostStop(c) \/ PostDestroy(c) PROVE LastStart(o, n)'
  <2>1. PICK p \in Timeouts : p = object[c]
    BY <1>0, <1>8 DEF PostStop, PostDestroy
  <2>2. PICK t \in Threads \cup {NULL}, more \in Records : Post(StopMessage(p, t), more)
    BY <1>8, <2>1 DEF PostStop, PostDestroy, Clients, Records
  <2>3. (StartPending(o) => StartPending(o)') /\ mishaps \subseteq mishaps'
    BY <2>2, PostedIs, PendingPosted, PostIs
  <2>4. /\ \A d \in Clients : pc[d] = "start" => pc'[d] = "start" /\ object'[d] = object[d]
        /\ posted' = posted
    BY <1>0, <1>8 DEF PostStop, PostDestroy, Goto
  <2> QED
    BY <2>3, <2>4
<1>9. ASSUME HandleStartTimer, Head(messages).mpTO # o PROVE LastStart(o, n)'
  <2>1. StartPending(o) => StartPending(o)'
    BY <1>9, PendingGot DEF HandleStartTimer
  <2>2. mishaps \subseteq mishaps' /\ UNCHANGED <<posted, pc, object>>
    BY <1>9 DEF HandleStartTimer
  <2> QED
    BY <2>1, <2>2
<1>10. CASE HandleStopTimer
  <2>1. StartPending(o) => StartPending(o)'
    BY <1>10, PendingGot DEF HandleStopTimer
  <2> QED
    BY <1>1, <1>10, <2>1 DEF HandleStopTimer
<1>11. ASSUME NEW i \in TimerIds, TakeTimer(i) \/ Elapses(i) PROVE LastStart(o, n)'
  BY <1>1, <1>2, <1>11 DEF TakeTimer, Elapses
<1>12. ASSUME NEW p \in Timeouts, DestroyOnThread(p) PROVE LastStart(o, n)'
  <2>1. PICK more : Post(StopMessage(p, TimeoutThread), more)
    BY <1>12 DEF DestroyOnThread
  <2>2. (StartPending(o) => StartPending(o)') /\ mishaps \subseteq mishaps'
    BY <2>1, TimeoutAssumption, PostedIs, PendingPosted, PostIs
  <2> QED
    BY <1>12, <2>2 DEF DestroyOnThread
<1> QED
  BY <1>3, <1>4, <1>5, <1>6, <1>7, <1>8, <1>9, <1>10, <1>11, <1>12, AsideIs
     DEF Next, Finishes, Thread

\* The queue stays numbered when a message is posted that is no start ...
LEMMA NumberedPosted ==
  ASSUME TypeInv, QueueNumbered, NEW m \in Messages, NEW more, Post(m, more),
         NEW o \in Timeouts, m.mpTO = o,
         \/ m.kind = "stop" /\ UNCHANGED posted
         \/ /\ m.kind = "start" /\ m.nth = posted[o] + 1
            /\ posted' = [posted EXCEPT ![o] = @ + 1]
  PROVE  QueueNumbered'
<1>1. PICK l \in Nat :
        /\ DOMAIN messages = 1 .. l /\ mishaps \subseteq mishaps'
        /\ \/ messages' = messages /\ "lost" \in mishaps'
           \/ /\ DOMAIN messages' = 1 .. l + 1 /\ messages'[l + 1] = m
              /\ \A n \in 1 .. l : messages'[n] = messages[n]
  BY PostIs
<1>2. CASE "lost" \in mishaps'
  BY <1>2 DEF QueueNumbered
<1>3. CASE /\ DOMAIN messages' = 1 .. l + 1 /\ messages'[l + 1] = m
           /\ \A n \in 1 .. l : messages'[n] = messages[n]
  <2>1. posted \in [Timeouts -> Nat]
    BY DEF TypeInv
  <2>2. \A n \in 1 .. l : n \in 1 .. l + 1 /\ n < l + 1
    OBVIOUS
  <2>3. l + 1 \in 1 .. l + 1
    OBVIOUS
  <2>4. \A n \in 1 .. l : messages[n].mpTO \in Timeouts
    BY <1>1, QueueIs, MessageIs
  <2>5. ASSUME NEW n \in 1 .. l, messages'[n].kind = "start"
        PROVE  \/ messages'[n].nth = posted'[messages'[n].mpTO]
               \/ \E k \in DOMAIN messages' : /\ k > n /\ messages'[k].kind = "start"
                                              /\ messages'[k].mpTO = messages'[n].mpTO
               \/ "lost" \in mishaps'
    <3>1. messages'[n] = messages[n]
      BY <1>3
    <3>2. CASE "lost" \in mishaps
      BY <1>1, <3>2
    <3>3. ASSUME NEW k \in 1 .. l, k > n, messages[k].kind = "start",
                 messages[k].mpTO = messages[n].mpTO
          PROVE  \E j \in DOMAIN messages' : /\ j > n /\ messages'[j].kind = "start"
                                             /\ messages'[j].mpTO = messages'[n].mpTO
      BY <1>3, <2>2, <3>1, <3>3
    <3>4. CASE messages[n].nth = posted[messages[n].mpTO]
      <4>1. CASE m.kind = "stop" \/ messages[n].mpTO # o
        <5>1. posted'[messages[n].mpTO] = posted[messages[n].mpTO]
          BY <2>1, <2>4, <4>1
        <5> QED
          BY <3>1, <3>4, <5>1
      <4>2. CASE m.kind = "start" /\ messages[n].mpTO = o
        <5>1. l + 1 > n
          OBVIOUS
        <5> QED
          BY <1>3, <2>3, <3>1, <4>2, <5>1
      <4> QED
        BY <4>1, <4>2, MessageIs
    <3> QED
      BY <1>1, <2>5, <3>1, <3>2, <3>3, <3>4 DEF QueueNumbered
  <2>6. m.kind = "start" => m.nth = posted'[m.mpTO]
    BY <2>1
  <2>7. \A n \in 1 .. l + 1 : n \in 1 .. l \/ n = l + 1
    OBVIOUS
  <2> QED
    BY <1>3, <2>5, <2>6, <2>7 DEF QueueNumbered
<1> QED
  BY <1>1, <1>2, <1>3

\* ... or when the thread gets one.
LEMMA NumberedGot ==
  ASSUME TypeInv, QueueNumbered, NEW kind, Got(kind), mishaps \subseteq mishaps',
         UNCHANGED posted
  PROVE  /\ QueueNumbered'
         /\ \A o \in Timeouts : kind = "start" /\ Head(messages).mpTO = o =>
              Head(messages).nth = posted[o] \/ StartPending(o)' \/ "lost" \in mishaps
<1>1. PICK l \in Nat :
        /\ DOMAIN messages = 1 .. l + 1 /\ messages[1] = Head(messages)
        /\ Head(messages).kind = kind /\ DOMAIN messages' = 1 .. l
        /\ \A n \in 1 .. l : messages'[n] = messages[n + 1]
  BY GotIs
<1>2. \A n \in 1 .. l : n + 1 \in 1 .. l + 1
  OBVIOUS
<1>3. \A k \in 1 .. l + 1 : k > 1 => \E j \in 1 .. l : j + 1 = k
  <2> SUFFICES ASSUME NEW k \in 1 .. l + 1, k > 1 PROVE \E j \in 1 .. l : j + 1 = k
    OBVIOUS
  <2>1. k - 1 \in 1 .. l /\ (k - 1) + 1 = k
    OBVIOUS
  <2> QED
    BY <2>1
<1>4. ASSUME NEW n \in 1 .. l, messages'[n].kind = "start"
      PROVE  \/ messages'[n].nth = posted'[messages'[n].mpTO]
             \/ \E k \in DOMAIN messages' : /\ k > n /\ messages'[k].kind = "start"
                                            /\ messages'[k].mpTO = messages'[n].mpTO
             \/ "lost" \in mishaps'
  <2>1. PICK p \in 1 .. l + 1 : p = n + 1 /\ messages'[n] = messages[p]
    BY <1>1, <1>2
  <2>2. ASSUME NEW k \in 1 .. l + 1, k > p, messages[k].kind = "start",
               messages[k].mpTO = messages[p].mpTO
        PROVE  \E j \in DOMAIN messages' : /\ j > n /\ messages'[j].kind = "start"
                                           /\ messages'[j].mpTO = messages'[n].mpTO
    <3>1. PICK j \in 1 .. l : j + 1 = k
      BY <1>3, <2>1, <2>2
    <3>2. j > n
      BY <2>1, <2>2, <3>1
    <3> QED
      BY <1>1, <2>1, <2>2, <3>1, <3>2
  <2> QED
    BY <1>1, <1>4, <2>1, <2>2 DEF QueueNumbered
<1>5. QueueNumbered'
  BY <1>1, <1>4 DEF QueueNumbered
<1>6. ASSUME NEW o \in Timeouts, kind = "start", Head(messages).mpTO = o
      PROVE  Head(messages).nth = posted[o] \/ StartPending(o)' \/ "lost" \in mishaps
  <2>1. 1 \in 1 .. l + 1
    OBVIOUS
  <2>2. ASSUME NEW k \in 1 .. l + 1, k > 1, messages[k].kind = "start",
               messages[k].mpTO = messages[1].mpTO
        PROVE  StartPending(o)'
    <3>1. PICK j \in 1 .. l : j + 1 = k
      BY <1>3, <2>2
    <3>2. messages'[j].kind = "start" /\ messages'[j].mpTO = o
      BY <1>1, <1>6, <2>2, <3>1
    <3> QED
      BY <1>1, <3>2 DEF StartPending
  <2>3. messages[1].kind = "start" /\ messages[1].mpTO = o
        /\ messages[1].nth = Head(messages).nth
    BY <1>1, <1>6
  <2>4. \/ messages[1].nth = posted[messages[1].mpTO]
        \/ \E k \in 1 .. l + 1 : /\ k > 1 /\ messages[k].kind = "start"
                                 /\ messages[k].mpTO = messages[1].mpTO
        \/ "lost" \in mishaps
    BY <1>1, <2>1, <2>3 DEF QueueNumbered
  <2> QED
    BY <2>2, <2>3, <2>4
<1> QED
  BY <1>5, <1>6

\* What else a step does to the timers of the timeouts and to the one in hand.
LEMMA HeldKept ==
  ASSUME TypeInv, Next
  PROVE  /\ period' = period \/ HandleStartTimer
         /\ \A o \in Timeouts : \/ mUserTimerMap'[o] \in {mUserTimerMap[o], NULL}
                                \/ HandleStartTimer /\ Head(messages).mpTO = o
         /\ tpc' = "expire" =>
              \/ tpc = "expire" /\ UNCHANGED <<timer, expiring, late, period>>
              \/ \E i \in TimerIds : TakeTimer(i)
         /\ late \subseteq late' /\ mishaps \subseteq mishaps'
<1> USE TimeoutAssumption
    DEF vars, objects, client, maps, system, thread, bounds, past
<1> DEFINE Held == /\ period' = period \/ HandleStartTimer
                   /\ \A o \in Timeouts :
                        \/ mUserTimerMap'[o] \in {mUserTimerMap[o], NULL}
                        \/ HandleStartTimer /\ Head(messages).mpTO = o
                   /\ tpc' = "expire" =>
                        \/ tpc = "expire" /\ UNCHANGED <<timer, expiring, late, period>>
                        \/ \E i \in TimerIds : TakeTimer(i)
                   /\ late \subseteq late' /\ mishaps \subseteq mishaps'
<1>1. ASSUME NEW c \in Clients, NEW o \in Timeouts,
             \/ Construct(c, o) \/ start(c, o) \/ stop(c, o) \/ disable(c, o)
             \/ destroy(c, o)
      PROVE  Held
  BY <1>1 DEF Construct, start, stop, disable, destroy, Begins
<1>2. ASSUME NEW c \in Clients, Finishes(c) PROVE Held
  BY <1>2 DEF Finishes, DisableStops, PostStart, PostStop, PostDestroy, DestroyReturns, Post
<1>3. ASSUME Aside PROVE Held
  BY <1>3 DEF Aside
<1>4. CASE HandleStartTimer
  <2>1. PICK o \in Timeouts : o = Head(messages).mpTO
    BY <1>4, GotIs, MessageIs DEF HandleStartTimer
  <2>2. tpc' = "get" /\ late \subseteq late' /\ mishaps \subseteq mishaps'
    BY <1>4 DEF HandleStartTimer, Got
  <2>3. \A p \in Timeouts \ {o} : mUserTimerMap'[p] = mUserTimerMap[p]
    BY <1>4, <2>1 DEF HandleStartTimer, TypeInv, TypeOK
  <2> QED
    BY <1>4, <2>1, <2>2, <2>3
<1>5. CASE HandleStopTimer
  <2>1. PICK o \in Timeouts : o = Head(messages).mpTO
    BY <1>5, GotIs, MessageIs DEF HandleStopTimer
  <2>2. mUserTimerMap' = [mUserTimerMap EXCEPT ![o] = NULL]
    BY <1>5, <2>1 DEF HandleStopTimer, ForgetTimer
  <2>3. tpc' = "get" /\ UNCHANGED <<period, late, mishaps>>
    BY <1>5 DEF HandleStopTimer, Got
  <2> QED
    BY <2>2, <2>3 DEF TypeInv, TypeOK
<1>6. ASSUME NEW i \in TimerIds, TakeTimer(i) PROVE Held
  <2>1. UNCHANGED <<period, late, mishaps>>
    BY <1>6 DEF TakeTimer
  <2>2. \A o \in Timeouts : mUserTimerMap'[o] \in {mUserTimerMap[o], NULL}
    BY <1>6 DEF TakeTimer, ForgetTimer, TypeInv, TypeOK
  <2> QED
    BY <1>6, <2>1, <2>2
<1>7. ASSUME NEW o \in Timeouts, DestroyOnThread(o) PROVE Held
  BY <1>7 DEF DestroyOnThread, Post
<1>8. ASSUME NEW i \in TimerIds, Elapses(i) PROVE Held
  BY <1>8 DEF Elapses
<1> QED
  BY <1>1, <1>2, <1>3, <1>4, <1>5, <1>6, <1>7, <1>8, AsideIs DEF Next, Thread

\* The queue stays numbered whatever happens.
LEMMA QueueNumberedKept ==
  ASSUME TypeInv, QueueNumbered, Next
  PROVE  QueueNumbered'
<1> USE TimeoutAssumption
    DEF vars, objects, client, maps, system, thread, bounds, past
<1>1. ASSUME UNCHANGED <<messages, posted, mishaps>> PROVE QueueNumbered'
  BY <1>1 DEF QueueNumbered
<1>2. ASSUME NEW c \in Clients, NEW o \in Timeouts,
             \/ Construct(c, o) \/ start(c, o) \/ stop(c, o) \/ disable(c, o)
             \/ destroy(c, o)
      PROVE  UNCHANGED <<messages, posted, mishaps>>
  BY <1>2 DEF Construct, start, stop, disable, destroy, Begins
<1>3. ASSUME NEW c \in Clients, DisableStops(c) \/ DestroyReturns(c)
      PROVE  UNCHANGED <<messages, posted, mishaps>>
  BY <1>3 DEF DisableStops, DestroyReturns
<1>4. ASSUME Aside PROVE UNCHANGED <<messages, posted, mishaps>>
  BY <1>4 DEF Aside
<1>5. ASSUME NEW c \in Clients, PostStart(c) PROVE QueueNumbered'
  <2>1. PICK o \in Timeouts : o = object[c]
    BY <1>5 DEF PostStart, TypeInv, TypeOK
  <2>2. Post(StartMessage(o), {}) /\ posted' = [posted EXCEPT ![o] = @ + 1]
    BY <1>5, <2>1 DEF PostStart
  <2> QED
    BY <2>2, PostedIs, NumberedPosted
<1>6. ASSUME NEW c \in Clients, PostStop(c) \/ PostDestroy(c) PROVE QueueNumbered'
  <2>1. PICK o \in Timeouts : o = object[c]
    BY <1>6 DEF PostStop, PostDestroy, TypeInv, TypeOK
  <2>2. PICK t \in Threads \cup {NULL}, more \in Records : Post(StopMessage(o, t), more)
    BY <1>6, <2>1 DEF PostStop, PostDestroy, Clients, Records
  <2>3. UNCHANGED posted
    BY <1>6 DEF PostStop, PostDestroy
  <2> QED
    BY <2>2, <2>3, PostedIs, NumberedPosted
<1>7. CASE HandleStartTimer
  <2>1. Got("start") /\ mishaps \subseteq mishaps' /\ UNCHANGED posted
    BY <1>7 DEF HandleStartTimer
  <2> QED
    BY <2>1, NumberedGot
<1>8. CASE HandleStopTimer
  <2>1. Got("stop") /\ mishaps \subseteq mishaps' /\ UNCHANGED posted
    BY <1>8 DEF HandleStopTimer
  <2> QED
    BY <2>1, NumberedGot
<1>9. ASSUME NEW i \in TimerIds, TakeTimer(i) \/ Elapses(i)
      PROVE  UNCHANGED <<messages, posted, mishaps>>
  BY <1>9 DEF TakeTimer, Elapses
<1>10. ASSUME NEW o \in Timeouts, DestroyOnThread(o) PROVE QueueNumbered'
  <2>1. PICK more : Post(StopMessage(o, TimeoutThread), more)
    BY <1>10 DEF DestroyOnThread
  <2>2. UNCHANGED posted
    BY <1>10 DEF DestroyOnThread
  <2> QED
    BY <2>1, <2>2, PostedIs, NumberedPosted
<1> QED
  BY <1>1, <1>2, <1>3, <1>4, <1>5, <1>6, <1>7, <1>8, <1>9, <1>10, AsideIs
     DEF Next, Finishes, Thread

\* A timer that runs, and one that a timeout expires by, stays of the last start.
LEMMA NumberedKept ==
  ASSUME TypeInv, TimersKnown, Numbered, Next
  PROVE  Numbered'
<1>1. QueueNumbered'
  BY QueueNumberedKept DEF Numbered
<1>2. ASSUME HandleStartTimer, NEW o \in Timeouts, mUserTimerMap'[o] # NULL
      PROVE  \E n \in Nat : n = period'[mUserTimerMap'[o]] /\ LastStart(o, n)'
  <2>1. PICK p \in Timeouts, n \in Nat : p = Head(messages).mpTO /\ n = Head(messages).nth
    BY <1>2, GotIs, MessageIs DEF HandleStartTimer
  <2>2. n = posted[p] \/ StartPending(p)' \/ "lost" \in mishaps
    <3>1. Got("start") /\ mishaps \subseteq mishaps' /\ UNCHANGED posted
      BY <1>2 DEF HandleStartTimer, past
    <3> QED
      BY <2>1, <3>1, NumberedGot DEF Numbered
  <2>3. mishaps \subseteq mishaps' /\ UNCHANGED posted
    BY <1>2 DEF HandleStartTimer, past
  <2>4. CASE "refused" \in mishaps'
    <3>1. mUserTimerMap'[o] \in TimerIds /\ period'[mUserTimerMap'[o]] \in Nat
      BY <1>2, TimeoutTypes DEF TypeInv, TypeOK
    <3> QED
      BY <2>4, <3>1 DEF LastStart
  <2>5. ASSUME NEW new \in TimerIds \ (running \cup due),
               mUserTimerMap' = [mUserTimerMap EXCEPT ![p] = new],
               period' = [period EXCEPT ![new] = n]
        PROVE  \E k \in Nat : k = period'[mUserTimerMap'[o]] /\ LastStart(o, k)'
    <3>1. CASE o = p
      <4>1. mUserTimerMap'[o] = new /\ period'[new] = n
        BY <2>5, <3>1 DEF TypeInv, TypeOK
      <4>2. LastStart(o, n)'
        BY <2>2, <2>3, <3>1 DEF LastStart, StartComing
      <4> QED
        BY <4>1, <4>2
    <3>2. CASE o # p
      <4>1. mUserTimerMap'[o] = mUserTimerMap[o]
        BY <2>5, <3>2 DEF TypeInv, TypeOK
      <4>2. mUserTimerMap[o] \in running /\ mUserTimerMap[o] # new
            /\ mUserTimerMap[o] \in TimerIds
        BY <1>2, <4>1 DEF TimersKnown, TypeInv, TypeOK
      <4>3. PICK k \in Nat : k = period[mUserTimerMap[o]]
        BY <4>2 DEF TypeInv
      <4>4. k = period'[mUserTimerMap'[o]]
        BY <2>5, <4>1, <4>2, <4>3 DEF TypeInv
      <4>5. LastStart(o, k)
        BY <1>2, <4>1, <4>3 DEF Numbered
      <4>6. LastStart(o, k)'
        BY <2>1, <3>2, <4>5, LastStartKept
      <4> QED
        BY <4>4, <4>6
    <3> QED
      BY <3>1, <3>2
  <2>6. \/ "refused" \in mishaps'
        \/ \E new \in TimerIds \ (running \cup due) :
             /\ mUserTimerMap' = [mUserTimerMap EXCEPT ![p] = new]
             /\ period' = [period EXCEPT ![new] = n]
    BY <1>2, <2>1 DEF HandleStartTimer
  <2> QED
    BY <2>4, <2>5, <2>6
<1>3. ASSUME ~HandleStartTimer, NEW o \in Timeouts, mUserTimerMap'[o] # NULL
      PROVE  \E n \in Nat : n = period'[mUserTimerMap'[o]] /\ LastStart(o, n)'
  <2>1. mUserTimerMap'[o] = mUserTimerMap[o] /\ period' = period
    BY <1>3, HeldKept
  <2>2. PICK n \in Nat : n = period[mUserTimerMap[o]]
    BY <1>3, <2>1 DEF TypeInv, TypeOK
  <2>3. LastStart(o, n)
    BY <1>3, <2>1, <2>2 DEF Numbered
  <2>4. LastStart(o, n)'
    BY <1>3, <2>3, LastStartKept
  <2> QED
    BY <2>1, <2>2, <2>4
<1>4. ASSUME tpc' = "expire"
      PROVE  \/ expiring' \in late'
             \/ \E o \in Timeouts, n \in Nat :
                  o = expiring' /\ n = period'[timer'] /\ LastStart(o, n)'
  <2>1. CASE tpc = "expire" /\ UNCHANGED <<timer, expiring, late, period>>
    <3>1. PICK o \in Timeouts, n \in Nat : o = expiring /\ n = period[timer]
      BY <2>1 DEF TypeInv
    <3>2. LastStart(o, n) \/ o \in late
      BY <2>1, <3>1 DEF Numbered
    <3>3. ~HandleStartTimer
      BY <2>1 DEF HandleStartTimer, Got
    <3> QED
      BY <2>1, <3>1, <3>2, <3>3, LastStartKept
  <2>2. ASSUME NEW i \in TimerIds, TakeTimer(i), tpc # "expire"
        PROVE  \/ expiring' \in late'
               \/ \E o \in Timeouts, n \in Nat :
                    o = expiring' /\ n = period'[timer'] /\ LastStart(o, n)'
    <3>1. PICK o \in Timeouts : /\ o = mSystemTimerMap[i] /\ expiring' = o
                                /\ mUserTimerMap[o] # NULL
      BY <1>4, <2>2, TimeoutAssumption DEF TakeTimer, TypeInv, TypeOK
    <3>2. timer' = i /\ i \in due /\ UNCHANGED <<late, period>>
      BY <2>2 DEF TakeTimer, past
    <3>3. CASE o \in late
      BY <3>1, <3>2, <3>3
    <3>4. CASE mUserTimerMap[o] = i
      <4>1. PICK n \in Nat : n = period[i]
        BY DEF TypeInv
      <4>2. LastStart(o, n)
        BY <3>1, <3>4, <4>1 DEF Numbered
      <4>3. ~HandleStartTimer
        BY <1>4 DEF HandleStartTimer, Got, thread
      <4> QED
        BY <3>1, <3>2, <4>1, <4>2, <4>3, LastStartKept
    <3> QED
      BY <3>1, <3>2, <3>3, <3>4, TimeoutAssumption DEF TimersKnown
  <2> QED
    BY <1>4, <2>1, <2>2, HeldKept DEF TakeTimer
<1>5. \A o \in Timeouts : mUserTimerMap'[o] # NULL =>
        \E n \in Nat : n = period'[mUserTimerMap'[o]] /\ LastStart(o, n)'
  BY <1>2, <1>3
<1>6. (\A o \in Timeouts : mUserTimerMap[o] # NULL => LastStart(o, period[mUserTimerMap[o]]))'
  BY <1>5 DEF LastStart, StartComing
<1>7. (tpc = "expire" => LastStart(expiring, period[timer]) \/ expiring \in late)'
  BY <1>4 DEF LastStart, StartComing, UsersOf, StartPending
<1> QED
  BY <1>1, <1>6, <1>7 DEF Numbered

-----------------------------------------------------------------------------
\* What is left of a timeout.

\* What a step does to the queue: it stays, a message is posted, or one is got.
LEMMA QueueSteps ==
  ASSUME TypeInv, Next
  PROVE  \/ UNCHANGED messages /\ ~HandleStartTimer /\ ~HandleStopTimer
         \/ \E c \in Clients : PostStart(c)
         \/ \E c \in Clients : PostStop(c)
         \/ \E c \in Clients : PostDestroy(c)
         \/ \E o \in Timeouts : DestroyOnThread(o)
         \/ HandleStartTimer \/ HandleStopTimer
<1> USE DEF vars, objects, client, maps, system, thread, bounds, past
<1>1. ASSUME NEW c \in Clients, NEW o \in Timeouts,
             \/ Construct(c, o) \/ start(c, o) \/ stop(c, o) \/ disable(c, o)
             \/ destroy(c, o)
      PROVE  UNCHANGED messages
  BY <1>1 DEF Construct, start, stop, disable, destroy, Begins
<1>2. ASSUME NEW c \in Clients, DisableStops(c) \/ DestroyReturns(c) PROVE UNCHANGED messages
  BY <1>2 DEF DisableStops, DestroyReturns
<1>3. ASSUME Aside PROVE UNCHANGED messages
  BY <1>3 DEF Aside
<1>4. ASSUME NEW i \in TimerIds, TakeTimer(i) \/ Elapses(i) PROVE UNCHANGED messages
  BY <1>4 DEF TakeTimer, Elapses
<1> QED
  BY <1>1, <1>2, <1>3, <1>4, AsideIs DEF Next, Finishes, Thread

\* A message that is posted is about the timeout of a method, or of one destroyed.
LEMMA Posting ==
  ASSUME TypeInv
  PROVE  /\ \A c \in Clients : PostStart(c) =>
              \E o \in Timeouts : o = object[c] /\ pc[c] = "start" /\ Post(StartMessage(o), {})
         /\ \A c \in Clients : PostStop(c) =>
              \E o \in Timeouts, more \in Records :
                o = object[c] /\ pc[c] = "stop" /\ Post(StopMessage(o, NULL), more)
         /\ \A c \in Clients : PostDestroy(c) =>
              \E o \in Timeouts :
                o = object[c] /\ pc[c] = "destroy" /\ Post(StopMessage(o, c), {})
         /\ \A o \in Timeouts : DestroyOnThread(o) =>
              \E more \in Records : Post(StopMessage(o, TimeoutThread), more)
BY DEF TypeInv, TypeOK, PostStart, PostStop, PostDestroy, DestroyOnThread, Records

\* A start comes into the queue from a start() in progress.
LEMMA PendingFrom ==
  ASSUME TypeInv, Next, NEW o \in Timeouts, StartPending(o)'
  PROVE  StartPending(o) \/ \E c \in Clients : object[c] = o /\ pc[c] = "start"
<1>1. CASE UNCHANGED messages
  BY <1>1 DEF StartPending
<1>2. ASSUME NEW c \in Clients, PostStart(c)
      PROVE  StartPending(o) \/ (object[c] = o /\ pc[c] = "start")
  <2>1. PICK p \in Timeouts : p = object[c] /\ pc[c] = "start" /\ Post(StartMessage(p), {})
    BY <1>2, Posting
  <2> QED
    BY <2>1, PostedIs, PendingPosted
<1>3. ASSUME NEW c \in Clients, PostStop(c) PROVE StartPending(o)
  <2>1. PICK p \in Timeouts, more \in Records : Post(StopMessage(p, NULL), more)
    BY <1>3, Posting
  <2> QED
    BY <2>1, PostedIs, PendingPosted
<1>4. ASSUME NEW c \in Clients, PostDestroy(c) PROVE StartPending(o)
  <2>1. PICK p \in Timeouts : Post(StopMessage(p, c), {})
    BY <1>4, Posting
  <2>2. c \in Threads \cup {NULL}
    BY DEF Clients
  <2> QED
    BY <2>1, <2>2, PostedIs, PendingPosted
<1>5. ASSUME NEW p \in Timeouts, DestroyOnThread(p) PROVE StartPending(o)
  <2>1. PICK more : Post(StopMessage(p, TimeoutThread), more)
    BY <1>5, Posting
  <2>2. TimeoutThread \in Threads \cup {NULL}
    BY TimeoutAssumption
  <2> QED
    BY <2>1, <2>2, PostedIs, PendingPosted
<1>6. ASSUME HandleStartTimer \/ HandleStopTimer PROVE StartPending(o)
  BY <1>6, PendingGot DEF HandleStartTimer, HandleStopTimer
<1> QED
  BY <1>1, <1>2, <1>3, <1>4, <1>5, <1>6, QueueSteps

\* The start that is handled was in the queue.
LEMMA HandledPending ==
  ASSUME TypeInv, HandleStartTimer, NEW o \in Timeouts, Head(messages).mpTO = o
  PROVE  StartPending(o)
<1>1. PICK l \in Nat : /\ DOMAIN messages = 1 .. l + 1 /\ messages[1] = Head(messages)
                       /\ Head(messages).kind = "start"
  BY GotIs DEF HandleStartTimer
<1>2. 1 \in 1 .. l + 1
  OBVIOUS
<1> QED
  BY <1>1, <1>2 DEF StartPending

\* The thread does not get to do with a timeout that nobody starts.
LEMMA GoneKept ==
  ASSUME TypeInv, Next, NEW o \in Timeouts, Gone(o),
         \A c \in Clients : object[c] = o => pc[c] # "start"
  PROVE  Gone(o)'
<1>1. ~StartPending(o) /\ mUserTimerMap[o] = NULL /\ ~(tpc = "expire" /\ expiring = o)
  BY DEF Gone
<1>2. ~StartPending(o)'
  BY <1>1, PendingFrom
<1>3. mUserTimerMap'[o] = NULL
  BY <1>1, HeldKept, HandledPending
<1>4. ~(tpc' = "expire" /\ expiring' = o)
  <2>1. SUFFICES ASSUME tpc' = "expire", expiring' = o PROVE FALSE
    OBVIOUS
  <2>2. PICK i \in TimerIds : TakeTimer(i) /\ tpc = "get"
    BY <1>1, <2>1, HeldKept DEF TakeTimer
  <2>3. mSystemTimerMap[i] = o /\ mUserTimerMap[o] # NULL
    BY <2>1, <2>2 DEF TakeTimer, TypeInv, TypeOK
  <2> QED
    BY <1>1, <2>3
<1> QED
  BY <1>2, <1>3, <1>4 DEF Gone

\* The stop of a destructor, in a queue q.
LastAbout(q, n, c, o) ==
  /\ object[c] = o /\ pc[c] = "destroyed" /\ ~mStopEvt[o]
  /\ \A m \in DOMAIN q : m > n => q[m].mpTO # o

\* What Answered says of each stop in the queue.
StopsAnswered ==
  \A n \in DOMAIN messages, c \in Clients, o \in Timeouts :
    messages[n].kind = "stop" /\ messages[n].from = c /\ messages[n].mpTO = o =>
      LastAbout(messages, n, c, o)

\* Answered, one timeout and client at a time.
LEMMA AnsweredIs ==
  ASSUME TypeInv
  PROVE  Answered <=> StopsAnswered /\ \A o \in Timeouts : mStopEvt[o] => Gone(o)
<1>1. \A n \in DOMAIN messages : messages[n].mpTO \in Timeouts
  BY QueueIs, MessageIs
<1> QED
  BY <1>1 DEF Answered, StopsAnswered, LastAbout

\* Only the stop of a destructor is answered.
LEMMA AnswerOnly ==
  ASSUME TypeInv, Next, NEW o \in Timeouts, ~mStopEvt[o], mStopEvt'[o]
  PROVE  HandleStopTimer /\ Head(messages).mpTO = o /\ Head(messages).from \in Clients
<1> USE DEF vars, objects, client, maps, system, thread, bounds, past
<1>0. mStopEvt \in [Timeouts -> BOOLEAN]
  BY DEF TypeInv
<1>1. ASSUME NEW c \in Clients, NEW p \in Timeouts, Construct(c, p) PROVE FALSE
  BY <1>0, <1>1 DEF Construct
<1>2. ASSUME NEW c \in Clients, NEW p \in Timeouts,
             start(c, p) \/ stop(c, p) \/ disable(c, p) \/ destroy(c, p)
      PROVE  UNCHANGED mStopEvt
  BY <1>2 DEF start, stop, disable, destroy, Begins
<1>3. ASSUME NEW c \in Clients,
             DisableStops(c) \/ PostStart(c) \/ PostStop(c) \/ PostDestroy(c)
      PROVE  UNCHANGED mStopEvt
  BY <1>3 DEF DisableStops, PostStart, PostStop, PostDestroy
<1>4. ASSUME NEW c \in Clients, DestroyReturns(c) PROVE FALSE
  BY <1>0, <1>4 DEF DestroyReturns, TypeInv
<1>5. ASSUME Aside PROVE UNCHANGED mStopEvt
  BY <1>5 DEF Aside
<1>6. HandleStartTimer => UNCHANGED mStopEvt
  BY DEF HandleStartTimer
<1>7. CASE HandleStopTimer
  <2>1. PICK p \in Timeouts : p = Head(messages).mpTO
    BY <1>7, GotIs, MessageIs DEF HandleStopTimer
  <2>2. mStopEvt' = IF Head(messages).from \in Clients
                    THEN [mStopEvt EXCEPT ![p] = TRUE] ELSE mStopEvt
    BY <1>7, <2>1 DEF HandleStopTimer, Answer
  <2> QED
    BY <1>0, <1>7, <2>1, <2>2
<1>8. ASSUME NEW i \in TimerIds, TakeTimer(i) \/ Elapses(i) PROVE UNCHANGED mStopEvt
  BY <1>8 DEF TakeTimer, Elapses
<1>9. ASSUME NEW p \in Timeouts, DestroyOnThread(p) PROVE UNCHANGED mStopEvt
  BY <1>9 DEF DestroyOnThread
<1> QED
  BY <1>1, <1>2, <1>3, <1>4, <1>5, <1>6, <1>7, <1>8, <1>9, AsideIs
     DEF Next, Finishes, Thread

\* While a destructor waits for its answer it goes on waiting.
LEMMA DestroyerWaits ==
  ASSUME TypeInv, Next, NEW c \in Clients, NEW o \in Timeouts,
         object[c] = o, pc[c] = "destroyed", ~mStopEvt[o]
  PROVE  /\ object'[c] = o /\ pc'[c] = "destroyed"
         /\ \/ ~mStopEvt'[o]
            \/ HandleStopTimer /\ Head(messages).mpTO = o /\ Head(messages).from \in Clients
<1> USE TimeoutAssumption
    DEF vars, objects, client, maps, system, thread, bounds, past
<1>0. /\ pc \in [Clients -> {"idle", "start", "stop", "disable", "destroy", "destroyed"}]
      /\ object \in [Clients -> Timeouts \cup {NULL}]
      /\ mStopEvt \in [Timeouts -> BOOLEAN]
  BY DEF TypeInv
<1>1. ASSUME UNCHANGED mStopEvt, pc'[c] = pc[c], object'[c] = object[c]
      PROVE  object'[c] = o /\ pc'[c] = "destroyed" /\ ~mStopEvt'[o]
  BY <1>1
<1>2. ASSUME NEW d \in Clients, NEW p \in Timeouts, Construct(d, p)
      PROVE  ~mStopEvt'[o] /\ UNCHANGED client
  BY <1>0, <1>2 DEF Construct
<1>3. ASSUME NEW d \in Clients, NEW p \in Timeouts,
             start(d, p) \/ stop(d, p) \/ disable(d, p) \/ destroy(d, p)
      PROVE  UNCHANGED mStopEvt /\ pc'[c] = pc[c] /\ object'[c] = object[c]
  <2>1. PICK status, at : Begins(d, p, status, at)
    BY <1>3 DEF start, stop, disable, destroy
  <2> QED
    BY <1>0, <2>1 DEF Begins, Idle, Goto
<1>4. ASSUME NEW d \in Clients,
             DisableStops(d) \/ PostStart(d) \/ PostStop(d) \/ PostDestroy(d)
      PROVE  UNCHANGED mStopEvt /\ pc'[c] = pc[c] /\ object'[c] = object[c]
  BY <1>0, <1>4 DEF DisableStops, PostStart, PostStop, PostDestroy, Goto
<1>5. ASSUME NEW d \in Clients, DestroyReturns(d)
      PROVE  ~mStopEvt'[o] /\ pc'[c] = pc[c] /\ object'[c] = object[c]
  BY <1>0, <1>5 DEF DestroyReturns, Goto
<1>6. ASSUME Aside PROVE UNCHANGED <<mStopEvt, pc, object>>
  BY <1>6 DEF Aside
<1>7. CASE HandleStartTimer
  BY <1>7 DEF HandleStartTimer
<1>8. CASE HandleStopTimer
  <2>1. PICK p \in Timeouts : p = Head(messages).mpTO
    BY <1>8, GotIs, MessageIs DEF HandleStopTimer
  <2>2. /\ mStopEvt' = IF Head(messages).from \in Clients
                       THEN [mStopEvt EXCEPT ![p] = TRUE] ELSE mStopEvt
        /\ UNCHANGED client
    BY <1>8, <2>1 DEF HandleStopTimer, Answer
  <2> QED
    BY <1>0, <1>8, <2>1, <2>2
<1>9. ASSUME NEW i \in TimerIds, TakeTimer(i) \/ Elapses(i)
      PROVE  UNCHANGED <<mStopEvt, pc, object>>
  BY <1>9 DEF TakeTimer, Elapses
<1>10. ASSUME NEW p \in Timeouts, DestroyOnThread(p) PROVE UNCHANGED <<mStopEvt, pc, object>>
  BY <1>10 DEF DestroyOnThread
<1> QED
  BY <1>1, <1>2, <1>3, <1>4, <1>5, <1>6, <1>7, <1>8, <1>9, <1>10, AsideIs
     DEF Next, Finishes, Thread

\* A message that is posted leaves each destructor's stop the last.
LEMMA StopsPosted ==
  ASSUME TypeInv, Next, StopsAnswered, ~HandleStopTimer,
         NEW m \in Messages, NEW more, Post(m, more),
         \A c \in Clients : object[c] = m.mpTO => pc[c] # "destroyed",
         \A c \in Clients : m.kind = "stop" /\ m.from = c =>
           object'[c] = m.mpTO /\ pc'[c] = "destroyed" /\ ~mStopEvt'[m.mpTO]
  PROVE  StopsAnswered'
<1> SUFFICES ASSUME NEW n \in DOMAIN messages', NEW c \in Clients, NEW o \in Timeouts,
                    messages'[n].kind = "stop", messages'[n].from = c,
                    messages'[n].mpTO = o
             PROVE  /\ object'[c] = o /\ pc'[c] = "destroyed" /\ ~mStopEvt'[o]
                    /\ \A k \in DOMAIN messages' : k > n => messages'[k].mpTO # o
  BY DEF StopsAnswered, LastAbout
<1>1. PICK l \in Nat :
        /\ DOMAIN messages = 1 .. l
        /\ \/ messages' = messages
           \/ /\ DOMAIN messages' = 1 .. l + 1 /\ messages'[l + 1] = m
              /\ \A k \in 1 .. l : messages'[k] = messages[k]
  BY PostIs
<1>2. \A k \in 1 .. l + 1 : k \in 1 .. l \/ k = l + 1
  OBVIOUS
<1>3. ASSUME n \in 1 .. l, messages'[n] = messages[n]
      PROVE  /\ LastAbout(messages, n, c, o)
             /\ object'[c] = o /\ pc'[c] = "destroyed" /\ ~mStopEvt'[o]
             /\ m.mpTO # o
  <2>1. LastAbout(messages, n, c, o)
    BY <1>1, <1>3 DEF StopsAnswered
  <2>2. object[c] = o /\ pc[c] = "destroyed" /\ ~mStopEvt[o]
    BY <2>1 DEF LastAbout
  <2> QED
    BY <2>1, <2>2, DestroyerWaits
<1>4. CASE messages' = messages
  BY <1>1, <1>3, <1>4 DEF LastAbout
<1>5. CASE /\ DOMAIN messages' = 1 .. l + 1 /\ messages'[l + 1] = m
           /\ \A k \in 1 .. l : messages'[k] = messages[k]
  <2>1. CASE n \in 1 .. l
    BY <1>1, <1>2, <1>3, <1>5, <2>1 DEF LastAbout
  <2>2. CASE n = l + 1
    <3>1. \A k \in 1 .. l + 1 : ~(k > n)
      BY <2>2
    <3> QED
      BY <1>5, <2>2, <3>1
  <2> QED
    BY <1>2, <1>5, <2>1, <2>2
<1> QED
  BY <1>1, <1>4, <1>5

\* So does a message that the thread gets.
LEMMA StopsGot ==
  ASSUME TypeInv, Next, StopsAnswered, NEW kind, Got(kind),
         HandleStartTimer \/ HandleStopTimer
  PROVE  /\ StopsAnswered'
         /\ \A o \in Timeouts, c \in Clients :
              kind = "stop" /\ Head(messages).mpTO = o /\ Head(messages).from = c =>
                object[c] = o /\ pc[c] = "destroyed" /\ ~StartPending(o)'
<1>1. PICK l \in Nat :
        /\ DOMAIN messages = 1 .. l + 1 /\ messages[1] = Head(messages)
        /\ Head(messages).kind = kind /\ DOMAIN messages' = 1 .. l
        /\ \A n \in 1 .. l : messages'[n] = messages[n + 1]
  BY GotIs
<1>2. \A n \in 1 .. l : n + 1 \in 1 .. l + 1 /\ n + 1 > 1
  OBVIOUS
<1>3. 1 \in 1 .. l + 1
  OBVIOUS
<1>4. \A n, k \in 1 .. l : k > n => k + 1 > n + 1
  OBVIOUS
<1>5. ASSUME NEW n \in 1 .. l, NEW c \in Clients, NEW o \in Timeouts,
             messages'[n].kind = "stop", messages'[n].from = c, messages'[n].mpTO = o
      PROVE  /\ object'[c] = o /\ pc'[c] = "destroyed" /\ ~mStopEvt'[o]
             /\ \A k \in 1 .. l : k > n => messages'[k].mpTO # o
  <2>1. LastAbout(messages, n + 1, c, o)
    BY <1>1, <1>2, <1>5 DEF StopsAnswered
  <2>2. object[c] = o /\ pc[c] = "destroyed" /\ ~mStopEvt[o]
    BY <2>1 DEF LastAbout
  <2>3. \A k \in 1 .. l : k > n => messages'[k].mpTO # o
    BY <1>1, <1>2, <1>4, <2>1 DEF LastAbout
  <2>4. ASSUME HandleStopTimer, Head(messages).mpTO = o, Head(messages).from \in Clients
        PROVE  FALSE
    <3>1. Head(messages).kind = "stop"
      BY <2>4 DEF HandleStopTimer, Got
    <3>2. LastAbout(messages, 1, Head(messages).from, o)
      BY <1>1, <1>3, <2>4, <3>1 DEF StopsAnswered
    <3>3. messages[n + 1].mpTO # o
      BY <1>1, <1>2, <3>2 DEF LastAbout
    <3> QED
      BY <1>1, <1>5, <3>3
  <2> QED
    BY <2>2, <2>3, <2>4, DestroyerWaits
<1>6. StopsAnswered'
  <2> SUFFICES ASSUME NEW n \in DOMAIN messages', NEW c \in Clients, NEW o \in Timeouts,
                      messages'[n].kind = "stop", messages'[n].from = c,
                      messages'[n].mpTO = o
               PROVE  /\ object'[c] = o /\ pc'[c] = "destroyed" /\ ~mStopEvt'[o]
                      /\ \A k \in DOMAIN messages' : k > n => messages'[k].mpTO # o
    BY DEF StopsAnswered, LastAbout
  <2> QED
    BY <1>1, <1>5
<1>7. ASSUME NEW o \in Timeouts, NEW c \in Clients,
             kind = "stop", Head(messages).mpTO = o, Head(messages).from = c
      PROVE  object[c] = o /\ pc[c] = "destroyed" /\ ~StartPending(o)'
  <2>1. LastAbout(messages, 1, c, o)
    BY <1>1, <1>3, <1>7 DEF StopsAnswered
  <2>2. \A n \in 1 .. l : messages'[n].mpTO # o
    BY <1>1, <1>2, <2>1 DEF LastAbout
  <2> QED
    BY <1>1, <2>1, <2>2 DEF LastAbout, StartPending
<1> QED
  BY <1>6, <1>7

\* The stops of destructors stay the last ones about their timeouts.
LEMMA StopsKept ==
  ASSUME TypeInv, UsersKnown, StopsAnswered, Next
  PROVE  StopsAnswered'
<1>1. ASSUME UNCHANGED messages, ~HandleStopTimer PROVE StopsAnswered'
  <2> SUFFICES ASSUME NEW n \in DOMAIN messages, NEW c \in Clients, NEW o \in Timeouts,
                      messages[n].kind = "stop", messages[n].from = c,
                      messages[n].mpTO = o
               PROVE  /\ object'[c] = o /\ pc'[c] = "destroyed" /\ ~mStopEvt'[o]
                      /\ \A k \in DOMAIN messages : k > n => messages[k].mpTO # o
    BY <1>1 DEF StopsAnswered, LastAbout
  <2>1. LastAbout(messages, n, c, o)
    BY DEF StopsAnswered
  <2> QED
    BY <1>1, <2>1, DestroyerWaits DEF LastAbout
<1>2. ASSUME NEW c \in Clients, PostStart(c) \/ PostStop(c) \/ PostDestroy(c)
      PROVE  ~HandleStopTimer
  <2>1. HandleStopTimer => UNCHANGED client
    BY DEF HandleStopTimer
  <2>2. object'[c] = NULL \/ pc'[c] = "destroyed"
    BY <1>2 DEF PostStart, PostStop, PostDestroy, Goto, TypeInv
  <2>3. pc[c] \in {"start", "stop", "destroy"} /\ object[c] # NULL
    BY <1>2 DEF PostStart, PostStop, PostDestroy, TypeInv, TypeOK
  <2> QED
    BY <2>1, <2>2, <2>3 DEF client
<1>3. ASSUME NEW c \in Clients, PostStart(c) PROVE StopsAnswered'
  <2>1. PICK o \in Timeouts : o = object[c] /\ pc[c] = "start" /\ Post(StartMessage(o), {})
    BY <1>3, Posting
  <2>2. \A d \in Clients : object[d] = o => pc[d] # "destroyed"
    BY <2>1 DEF UsersKnown
  <2> QED
    BY <1>2, <1>3, <2>1, <2>2, PostedIs, StopsPosted
<1>4. ASSUME NEW c \in Clients, PostStop(c) PROVE StopsAnswered'
  <2>1. PICK o \in Timeouts, more \in Records :
          o = object[c] /\ pc[c] = "stop" /\ Post(StopMessage(o, NULL), more)
    BY <1>4, Posting
  <2>2. \A d \in Clients : object[d] = o => pc[d] # "destroyed"
    BY <2>1 DEF UsersKnown
  <2>3. NULL \notin Clients
    BY TimeoutAssumption DEF Clients
  <2>4. NULL \in Threads \cup {NULL}
    OBVIOUS
  <2> QED
    BY <1>2, <1>4, <2>1, <2>2, <2>3, <2>4, PostedIs, StopsPosted
<1>5. ASSUME NEW c \in Clients, PostDestroy(c) PROVE StopsAnswered'
  <2>1. PICK o \in Timeouts : o = object[c] /\ pc[c] = "destroy" /\ Post(StopMessage(o, c), {})
    BY <1>5, Posting
  <2>2. \A d \in Clients : object[d] = o => d = c
    BY <2>1 DEF UsersKnown
  <2>3. ~mStopEvt[o]
    BY <2>1, <2>2 DEF UsersKnown, TypeInv
  <2>4. object'[c] = o /\ pc'[c] = "destroyed" /\ ~mStopEvt'[o]
    BY <1>5, <2>1, <2>3 DEF PostDestroy, Goto, objects, TypeInv
  <2>5. c \in Threads \cup {NULL}
    BY DEF Clients
  <2> QED
    BY <1>2, <1>5, <2>1, <2>2, <2>4, <2>5, PostedIs, StopsPosted
<1>6. ASSUME NEW o \in Timeouts, DestroyOnThread(o) PROVE StopsAnswered'
  <2>1. PICK more : Post(StopMessage(o, TimeoutThread), more)
    BY <1>6, Posting
  <2>2. TimeoutThread \in Threads \cup {NULL} /\ TimeoutThread \notin Clients
    BY TimeoutAssumption DEF Clients
  <2>3. \A d \in Clients : object[d] # o
    BY <1>6 DEF DestroyOnThread, UsersOf
  <2>4. ~HandleStopTimer
    BY <1>6 DEF DestroyOnThread, HandleStopTimer, Got
  <2> QED
    BY <2>1, <2>2, <2>3, <2>4, PostedIs, StopsPosted
<1>7. CASE HandleStartTimer \/ HandleStopTimer
  BY <1>7, StopsGot DEF HandleStartTimer, HandleStopTimer
<1> QED
  BY <1>1, <1>3, <1>4, <1>5, <1>6, <1>7, QueueSteps

\* A destructor is answered when the thread has nothing of its timeout.
LEMMA AnsweredKept ==
  ASSUME TypeInv, UsersKnown, Answered, Next
  PROVE  Answered'
<1>1. StopsAnswered /\ \A o \in Timeouts : mStopEvt[o] => Gone(o)
  BY AnsweredIs
<1>2. StopsAnswered'
  BY <1>1, StopsKept
<1>3. ASSUME NEW o \in Timeouts, mStopEvt'[o] PROVE Gone(o)'
  <2>1. CASE mStopEvt[o]
    <3>1. Gone(o)
      BY <1>1, <2>1
    <3>2. PICK c \in Clients : object[c] = o /\ pc[c] = "destroyed"
      BY <2>1 DEF UsersKnown
    <3>3. \A d \in Clients : object[d] = o => pc[d] # "start"
      BY <3>2 DEF UsersKnown
    <3> QED
      BY <3>1, <3>3, GoneKept
  <2>2. CASE ~mStopEvt[o]
    <3>1. /\ HandleStopTimer /\ Head(messages).mpTO = o
          /\ Head(messages).from \in Clients
      BY <1>3, <2>2, AnswerOnly
    <3>2. ~StartPending(o)'
      BY <1>1, <3>1, StopsGot DEF HandleStopTimer
    <3>3. mUserTimerMap'[o] = NULL
      BY <3>1 DEF HandleStopTimer, ForgetTimer, TypeInv, TypeOK
    <3>4. tpc' = "get"
      BY <3>1 DEF HandleStopTimer, Got, thread
    <3> QED
      BY <3>2, <3>3, <3>4 DEF Gone
  <2> QED
    BY <2>1, <2>2
<1>4. Answered' <=> StopsAnswered' /\ \A o \in Timeouts : mStopEvt'[o] => Gone(o)'
  <2>1. \A n \in DOMAIN messages' : messages'[n].mpTO \in Timeouts
    <3>1. messages' \in Seq(Messages)
      BY TimeoutTypes DEF TypeInv
    <3>2. \A n \in DOMAIN messages' : messages'[n] \in Messages
      BY <3>1, LenProperties, ElementOfSeq
    <3> QED
      BY <3>2, MessageIs
  <2> QED
    BY <2>1 DEF Answered, StopsAnswered, LastAbout
<1> QED
  BY <1>2, <1>3, <1>4

-----------------------------------------------------------------------------
\* A timeout that is destroyed.

\* Nothing of o is with the thread but what will be stopped.
Left(o) ==
  /\ ~(tpc = "expire" /\ expiring = o)
  /\ ~StartPending(o)
  /\ mUserTimerMap[o] # NULL =>
       /\ o \in mVoidedUserTimerSet
       /\ \E n \in DOMAIN messages : messages[n] = StopMessage(o, TimeoutThread)

\* The message that stops a void timer stays until it is handled.
LEMMA StopStays ==
  ASSUME TypeInv, Next, NEW o \in Timeouts,
         NEW n \in DOMAIN messages, messages[n] = StopMessage(o, TimeoutThread),
         ~(HandleStopTimer /\ Head(messages).mpTO = o)
  PROVE  \E k \in DOMAIN messages' : messages'[k] = StopMessage(o, TimeoutThread)
<1>0. /\ StopMessage(o, TimeoutThread).kind = "stop" /\ StopMessage(o, TimeoutThread).mpTO = o
  BY DEF StopMessage
<1>1. ASSUME NEW m \in Messages, NEW more, Post(m, more)
      PROVE  \E k \in DOMAIN messages' : messages'[k] = StopMessage(o, TimeoutThread)
  <2>1. PICK l \in Nat :
          /\ DOMAIN messages = 1 .. l
          /\ \/ messages' = messages
             \/ /\ DOMAIN messages' = 1 .. l + 1
                /\ \A k \in 1 .. l : messages'[k] = messages[k]
    BY <1>1, PostIs
  <2>2. \A k \in 1 .. l : k \in 1 .. l + 1
    OBVIOUS
  <2> QED
    BY <2>1, <2>2
<1>2. ASSUME NEW kind, Got(kind), HandleStartTimer \/ HandleStopTimer
      PROVE  \E k \in DOMAIN messages' : messages'[k] = StopMessage(o, TimeoutThread)
  <2>1. PICK l \in Nat :
          /\ DOMAIN messages = 1 .. l + 1 /\ messages[1] = Head(messages)
          /\ DOMAIN messages' = 1 .. l
          /\ \A k \in 1 .. l : messages'[k] = messages[k + 1]
    BY <1>2, GotIs
  <2>2. n # 1
    BY <1>0, <1>2, <2>1 DEF HandleStartTimer, Got
  <2>3. n - 1 \in 1 .. l /\ (n - 1) + 1 = n
    BY <2>1, <2>2
  <2> QED
    BY <2>1, <2>3
<1>3. CASE UNCHANGED messages
  BY <1>3
<1>4. ASSUME NEW c \in Clients, PostStart(c) \/ PostStop(c) \/ PostDestroy(c)
      PROVE  \E m \in Messages, more \in Records : Post(m, more)
  <2>1. c \in Threads \cup {NULL} /\ NULL \in Threads \cup {NULL}
    BY DEF Clients
  <2> QED
    BY <1>4, <2>1, Posting, PostedIs DEF Records
<1>5. ASSUME NEW p \in Timeouts, DestroyOnThread(p)
      PROVE  \E m \in Messages, more \in Records : Post(m, more)
  <2>1. TimeoutThread \in Threads \cup {NULL}
    BY TimeoutAssumption
  <2> QED
    BY <1>5, <2>1, Posting, PostedIs
<1>6. HandleStartTimer => Got("start")
  BY DEF HandleStartTimer
<1>7. HandleStopTimer => Got("stop")
  BY DEF HandleStopTimer
<1> QED
  BY <1>1, <1>2, <1>3, <1>4, <1>5, <1>6, <1>7, QueueSteps

\* A void timer stays void until it is forgotten.
LEMMA VoidStays ==
  ASSUME TypeInv, Next, NEW o \in Timeouts,
         o \in mVoidedUserTimerSet, mUserTimerMap'[o] # NULL
  PROVE  o \in mVoidedUserTimerSet'
<1> USE DEF vars, objects, client, maps, system, thread, bounds, past
<1>1. ASSUME NEW c \in Clients, NEW p \in Timeouts,
             \/ Construct(c, p) \/ start(c, p) \/ stop(c, p) \/ disable(c, p)
             \/ destroy(c, p)
      PROVE  UNCHANGED maps
  BY <1>1 DEF Construct, start, stop, disable, destroy, Begins
<1>2. ASSUME NEW c \in Clients, Finishes(c) PROVE UNCHANGED maps
  BY <1>2 DEF Finishes, DisableStops, PostStart, PostStop, PostDestroy, DestroyReturns
<1>3. ASSUME Aside PROVE UNCHANGED maps
  BY <1>3 DEF Aside
<1>4. CASE HandleStartTimer
  BY <1>4 DEF HandleStartTimer
<1>5. CASE HandleStopTimer
  BY <1>5 DEF HandleStopTimer, ForgetTimer, TypeInv, TypeOK
<1>6. ASSUME NEW i \in TimerIds, TakeTimer(i) PROVE o \in mVoidedUserTimerSet'
  BY <1>6 DEF TakeTimer, ForgetTimer, TypeInv, TypeOK
<1>7. ASSUME NEW p \in Timeouts, DestroyOnThread(p) PROVE o \in mVoidedUserTimerSet'
  BY <1>7 DEF DestroyOnThread
<1>8. ASSUME NEW i \in TimerIds, Elapses(i) PROVE UNCHANGED maps
  BY <1>8 DEF Elapses
<1> QED
  BY <1>1, <1>2, <1>3, <1>4, <1>5, <1>6, <1>7, <1>8, AsideIs DEF Next, Thread

\* A destroyed timeout has nothing more with the thread.
LEMMA LeftKept ==
  ASSUME TypeInv, UsersKnown, Next, NEW o \in Timeouts, life[o] = "dead", Left(o)
  PROVE  Left(o)'
<1>1. ~StartPending(o) /\ ~(tpc = "expire" /\ expiring = o)
  BY DEF Left
<1>2. \A c \in Clients : object[c] = o => pc[c] # "start"
  BY DEF UsersKnown
<1>3. ~StartPending(o)'
  BY <1>1, <1>2, PendingFrom
<1>4. ASSUME mUserTimerMap'[o] # NULL
      PROVE  /\ mUserTimerMap[o] # NULL /\ o \in mVoidedUserTimerSet'
             /\ \E n \in DOMAIN messages' : messages'[n] = StopMessage(o, TimeoutThread)
  <2>1. mUserTimerMap[o] # NULL
    BY <1>1, <1>4, HeldKept, HandledPending
  <2>2. /\ o \in mVoidedUserTimerSet
        /\ \E n \in DOMAIN messages : messages[n] = StopMessage(o, TimeoutThread)
    BY <2>1 DEF Left
  <2>3. ~(HandleStopTimer /\ Head(messages).mpTO = o)
    BY <1>4 DEF HandleStopTimer, ForgetTimer, TypeInv, TypeOK
  <2> QED
    BY <1>4, <2>1, <2>2, <2>3, VoidStays, StopStays
<1>5. ~(tpc' = "expire" /\ expiring' = o)
  <2>1. SUFFICES ASSUME tpc' = "expire", expiring' = o PROVE FALSE
    OBVIOUS
  <2>2. PICK i \in TimerIds : TakeTimer(i) /\ tpc = "get"
    BY <1>1, <2>1, HeldKept DEF TakeTimer
  <2>3. mUserTimerMap[o] # NULL /\ o \notin mVoidedUserTimerSet
    BY <2>1, <2>2 DEF TakeTimer, TypeInv, TypeOK
  <2> QED
    BY <2>3 DEF Left
<1>6. StopMessage(o, TimeoutThread)' = StopMessage(o, TimeoutThread)
  BY DEF StopMessage
<1> QED
  BY <1>3, <1>4, <1>5, <1>6 DEF Left

\* How a timeout comes to be destroyed.
LEMMA Dies ==
  ASSUME TypeInv, Next, NEW o \in Timeouts, life[o] # "dead", life'[o] = "dead"
  PROVE  \/ \E c \in Clients : DestroyReturns(c) /\ object[c] = o
         \/ DestroyOnThread(o)
<1> USE DEF vars, objects, client, maps, system, thread, bounds, past
<1>0. life \in [Timeouts -> {"none", "live", "dying", "dead"}]
  BY DEF TypeInv, TypeOK
<1>1. ASSUME NEW c \in Clients, NEW p \in Timeouts,
             Construct(c, p) \/ destroy(c, p)
      PROVE  FALSE
  BY <1>0, <1>1 DEF Construct, destroy
<1>2. ASSUME NEW c \in Clients, NEW p \in Timeouts,
             start(c, p) \/ stop(c, p) \/ disable(c, p)
      PROVE  UNCHANGED life
  BY <1>2 DEF start, stop, disable
<1>3. ASSUME NEW c \in Clients,
             DisableStops(c) \/ PostStart(c) \/ PostStop(c) \/ PostDestroy(c)
      PROVE  UNCHANGED life
  BY <1>3 DEF DisableStops, PostStart, PostStop, PostDestroy
<1>4. ASSUME NEW c \in Clients, DestroyReturns(c) PROVE object[c] = o
  <2>1. life' = [life EXCEPT ![object[c]] = "dead"]
    BY <1>4 DEF DestroyReturns
  <2> QED
    BY <1>0, <2>1
<1>5. ASSUME Aside PROVE UNCHANGED life
  BY <1>5 DEF Aside
<1>6. ASSUME HandleStartTimer \/ HandleStopTimer PROVE UNCHANGED life
  BY <1>6 DEF HandleStartTimer, HandleStopTimer
<1>7. ASSUME NEW i \in TimerIds, TakeTimer(i) \/ Elapses(i) PROVE UNCHANGED life
  BY <1>7 DEF TakeTimer, Elapses
<1>8. ASSUME NEW p \in Timeouts, DestroyOnThread(p) PROVE p = o
  <2>1. life' = [life EXCEPT ![p] = "dead"]
    BY <1>8 DEF DestroyOnThread
  <2> QED
    BY <1>0, <2>1
<1> QED
  BY <1>1, <1>2, <1>3, <1>4, <1>5, <1>6, <1>7, <1>8, AsideIs DEF Next, Finishes, Thread

\* Nothing is left of a timeout when it is destroyed, nor comes afterwards.
LEMMA NothingLeftKept ==
  ASSUME TypeInv, UsersKnown, Answered, NothingLeftBehind, Next
  PROVE  NothingLeftBehind'
<1>1. TypeOK'
  BY TimeoutTypes DEF TypeInv
<1>2. ASSUME "torn" \notin mishaps', NEW o \in Timeouts, life'[o] = "dead"
      PROVE  Left(o)'
  <2>1. "torn" \notin mishaps
    BY <1>2, HeldKept
  <2>2. CASE life[o] = "dead"
    <3>1. Left(o)
      BY <2>1, <2>2 DEF NothingLeftBehind, Left
    <3> QED
      BY <2>2, <3>1, LeftKept
  <2>3. ASSUME NEW c \in Clients, DestroyReturns(c), object[c] = o PROVE Left(o)'
    <3>1. pc[c] = "destroyed" /\ mStopEvt[o]
      BY <2>3 DEF DestroyReturns
    <3>2. Gone(o)
      BY <3>1 DEF Answered
    <3>3. \A d \in Clients : object[d] = o => pc[d] # "start"
      BY <2>3, <3>1 DEF UsersKnown
    <3>4. Gone(o)'
      BY <3>2, <3>3, GoneKept
    <3> QED
      BY <3>4 DEF Gone, Left
  <2>4. CASE DestroyOnThread(o)
    <3>1. ~StartPending(o)
      BY <1>2, <2>4 DEF DestroyOnThread, Post
    <3>2. \A c \in Clients : object[c] # o
      BY <2>4 DEF DestroyOnThread, UsersOf
    <3>3. ~StartPending(o)'
      BY <3>1, <3>2, PendingFrom
    <3>4. tpc' = "signal" /\ o \in mVoidedUserTimerSet'
      BY <2>4 DEF DestroyOnThread, thread
    <3>5. \E n \in DOMAIN messages' : messages'[n] = StopMessage(o, TimeoutThread)
      <4>1. PICK more : Post(StopMessage(o, TimeoutThread), more) /\ tpc = "signal"
        BY <2>4, Posting DEF DestroyOnThread
      <4>2. StopMessage(o, TimeoutThread) \in Messages
        BY PostedIs, TimeoutAssumption
      <4>3. PICK l \in Nat : /\ DOMAIN messages' = 1 .. l + 1
                             /\ messages'[l + 1] = StopMessage(o, TimeoutThread)
        BY <4>1, <4>2, PostIs
      <4>4. l + 1 \in 1 .. l + 1
        OBVIOUS
      <4> QED
        BY <4>3, <4>4
    <3>6. StopMessage(o, TimeoutThread)' = StopMessage(o, TimeoutThread)
      BY DEF StopMessage
    <3> QED
      BY <3>3, <3>4, <3>5, <3>6 DEF Left
  <2> QED
    BY <1>2, <2>2, <2>3, <2>4, Dies
<1> QED
  BY <1>1, <1>2 DEF NothingLeftBehind, Left

-----------------------------------------------------------------------------
\* The invariant.

\* The invariant holds at the start.
LEMMA InitIInv == Init => IInv
<1> SUFFICES ASSUME Init PROVE IInv
  OBVIOUS
<1>1. TypeInv
  BY TypesInit
<1>2. WaiterGetsFirstSignal
  BY DEF Init, InitCondition, WaiterGetsFirstSignal, ConditionTypeOK, Waiters,
         kNotSetMct, Types
<1>3. DOMAIN messages = {}
  BY DEF Init
<1>4. UsersKnown
  BY DEF Init, UsersKnown
<1>5. TimersKnown
  BY DEF Init, TimersKnown
<1>6. Numbered
  BY <1>3 DEF Init, Numbered, QueueNumbered
<1>7. Answered
  BY <1>3 DEF Init, Answered
<1>8. NothingLeftBehind
  BY <1>1 DEF Init, NothingLeftBehind, TypeInv
<1> QED
  BY <1>1, <1>2, <1>4, <1>5, <1>6, <1>7, <1>8 DEF IInv

\* Every step keeps it.
LEMMA NextIInv == IInv /\ [Next]_vars => IInv'
<1> SUFFICES ASSUME IInv, [Next]_vars PROVE IInv'
  OBVIOUS
<1>1. /\ WaiterGetsFirstSignal
      /\ TypeInv /\ UsersKnown /\ TimersKnown /\ Numbered /\ Answered /\ NothingLeftBehind
  BY DEF IInv
<1>2. CASE Next
  <2>1. (\E t \in Threads : Operation(t)) \/ UNCHANGED condition
    BY <1>2, ConditionUsed
  <2>2. WaiterGetsFirstSignal'
    BY <1>1, <2>1, ConditionStep
  <2> QED
    BY <1>1, <1>2, <2>2, TimeoutTypes, UsersKept, TimersKept, NumberedKept,
       AnsweredKept, NothingLeftKept DEF IInv
<1>3. CASE UNCHANGED vars
  <2> USE DEF vars, condition, objects, client, maps, system, thread, bounds, past
  <2>1. WaiterGetsFirstSignal'
    BY <1>1, <1>3, ConditionStep
  <2>2. TypeInv'
    BY <1>1, <1>3 DEF TypeInv, TypeOK
  <2>3. UsersKnown'
    BY <1>1, <1>3 DEF UsersKnown
  <2>4. TimersKnown'
    BY <1>1, <1>3 DEF TimersKnown
  <2>5. Numbered'
    BY <1>1, <1>3 DEF Numbered, QueueNumbered, LastStart, StartComing, StartPending, UsersOf
  <2>6. Answered'
    BY <1>1, <1>3 DEF Answered, Gone, StartPending
  <2>7. NothingLeftBehind'
    BY <1>1, <1>3, <2>2 DEF NothingLeftBehind, StartPending, StopMessage, TypeInv
  <2> QED
    BY <2>1, <2>2, <2>3, <2>4, <2>5, <2>6, <2>7 DEF IInv
<1> QED
  BY <1>2, <1>3

-----------------------------------------------------------------------------
\* The theorems.

\* The invariant holds in every reachable state.
THEOREM Invariance == Spec => []IInv
BY InitIInv, NextIInv, PTL DEF Spec

\* The clients and the thread of cCSSTimeout use the multicondition so that a
\* waiter gets the first signal since its wait began.
THEOREM FirstSignals == Spec => []WaiterGetsFirstSignal
<1>1. IInv => WaiterGetsFirstSignal
  BY DEF IInv
<1> QED
  BY <1>1, Invariance, PTL

\* A timer serves the timeout and the start it was set for, and none is left to a
\* timeout that is destroyed.
THEOREM TimersServe == Spec => TimersServeTheirStart
<1>1. IInv => NothingLeftBehind
  BY DEF IInv
<1>2. IInv /\ [Next]_vars =>
        [tpc = "expire" /\ mStatus[expiring] = "Set" /\ mStatus'[expiring] = "Expired"
           /\ tpc' # "expire"
         => \/ period[timer] = posted[expiring]
            \/ StartPending(expiring)
            \/ \E c \in UsersOf(expiring) : pc[c] = "start"
            \/ expiring \in late
            \/ mishaps \cap {"lost", "refused"} # {}]_vars
  BY DEF IInv, Numbered, LastStart, StartComing
<1> QED
  BY <1>1, <1>2, Invariance, PTL DEF Spec, TimersServeTheirStart, ExpiresByLastStart

=============================================================================
