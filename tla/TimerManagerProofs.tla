------------------------ MODULE TimerManagerProofs -------------------------
(* Proofs about cTimerManager, for any number of clients, timers and slots. *)
EXTENDS TimerManager, WellFoundedInduction, TLAPS

USE TimerAssumption DEF access

\* The slot that memset and KillTimer leave is a well-typed entry.
LEMMA FreeEntryIsEntry == FreeEntry \in Entry
BY DEF FreeEntry, Entry

\* The entry that CreateTimer writes is well typed.
LEMMA StartedEntry ==
  ASSUME NEW h \in Handlers, NEW v \in Periods, NEW ev \in Timers \cup {NULL}
  PROVE  [argument |-> h, timerVal |-> v, originalTimerVal |-> v,
          running |-> TRUE, eventInfo |-> ev] \in Entry
BY DEF Entry

\* The types of an entry's fields, for the pulse thread that reads them.
LEMMA EntryFields ==
  ASSUME NEW e \in Entry
  PROVE  /\ e.argument \in Handlers \cup {NULL}
         /\ e.timerVal \in Nat
         /\ e.originalTimerVal \in Nat
         /\ e.running \in BOOLEAN
         /\ e.eventInfo \in Timers \cup {NULL}
BY DEF Entry

\* Counting down, reloading, pausing, resuming and a new period keep an entry
\* well typed.
LEMMA EntryChanged ==
  ASSUME NEW e \in Entry, NEW n \in Nat, NEW m \in Nat, NEW b \in BOOLEAN
  PROVE  /\ [e EXCEPT !.timerVal = n] \in Entry
         /\ [e EXCEPT !.running = b] \in Entry
         /\ [e EXCEPT !.timerVal = n, !.running = b] \in Entry
         /\ [e EXCEPT !.timerVal = n, !.originalTimerVal = m] \in Entry
BY DEF Entry

\* Writing one well-typed entry keeps the array well typed.
LEMMA ArrayWithEntry ==
  ASSUME NEW f \in [Slots -> Entry], NEW i \in Slots, NEW e \in Entry
  PROVE  [f EXCEPT ![i] = e] \in [Slots -> Entry]
OBVIOUS

\* From the expiry on, Pulse stands at a slot of the array.
LEMMA RingingSlot ==
  ASSUME TypeOK, Locks,
         pc \in {"ring", "gate", "read", "call", "callback", "unpause", "reload",
                "load", "store", "relock"}
  PROVE  index \in Slots /\ mTimers[index] \in Entry
<1>1. index \in 0 .. MaxSlots /\ mnElementCount \in 0 .. MaxSlots
  BY DEF TypeOK
<1>2. index < mnElementCount
  BY DEF Locks
<1>3. index \in Slots
  BY <1>1, <1>2 DEF Slots
<1>. QED
  BY <1>3 DEF TypeOK

\* The constructor leaves every variable well typed.
LEMMA InitTypeOK == Init => TypeOK
<1> SUFFICES ASSUME Init PROVE TypeOK
  OBVIOUS
<1>1. mTimers \in [Slots -> Entry]
  BY FreeEntryIsEntry DEF Init
<1>2. /\ mnElementCount \in 0 .. MaxSlots
      /\ index \in 0 .. MaxSlots
      /\ calls \in Nat
  BY DEF Init
<1>3. /\ tid \in [Slots -> Timers \cup {NULL}]
      /\ life \in [Timers -> {"unborn", "live", "dead"}]
      /\ lateCalls \in [Timers -> Nat]
      /\ age \in [Slots -> Nat]
  BY DEF Init
<1>. QED
  BY <1>1, <1>2, <1>3, Zenon DEF Init, TypeOK

\* The pulse thread keeps the types: in particular the count down never passes
\* below zero, and the index stays inside the array.
LEMMA PulseTypeOK == TypeOK /\ Locks /\ GrowInProgress /\ Pulse => TypeOK'
<1> SUFFICES ASSUME TypeOK, Locks, GrowInProgress, Pulse PROVE TypeOK'
  OBVIOUS
<1> USE DEF Goto, array, thread, history, Threads
<1>1. CASE PulseStart BY <1>1 DEF PulseStart, TypeOK
<1>2. CASE PulseSkip BY <1>2 DEF PulseSkip, TypeOK, Scanning
<1>3. CASE PulseCountDown
  <2>1. index \in Slots /\ mTimers[index] \in Entry
    BY <1>3 DEF PulseCountDown, TypeOK, Scanning, Armed, IsValid, Slots
  <2>2. mTimers[index].timerVal - Precision \in Nat
    BY <1>3, <2>1, EntryFields DEF PulseCountDown
  <2>3. mTimers' = [mTimers EXCEPT ![index] = [mTimers[index] EXCEPT !.timerVal = mTimers[index].timerVal - Precision]]
    BY <1>3, Zenon DEF PulseCountDown
  <2>4. mTimers' \in [Slots -> Entry]
    <3>1. [mTimers[index] EXCEPT !.timerVal = mTimers[index].timerVal - Precision] \in Entry
       BY <2>1, <2>2, EntryChanged
    <3>. QED BY <2>1, <2>3, <3>1, ArrayWithEntry DEF TypeOK
  <2>5. age' \in [Slots -> Nat] /\ index' \in 0 .. MaxSlots
    BY <1>3 DEF PulseCountDown, TypeOK, Scanning, Slots
  <2>. QED BY <1>3, <2>4, <2>5 DEF PulseCountDown, TypeOK
<1>4. CASE PulseRing
  <2>1. index \in Slots /\ mTimers[index] \in Entry
    BY <1>4 DEF PulseRing, TypeOK, Scanning, Armed, IsValid, Slots
  <2>2. thisItem' \in Handlers \cup {NULL} /\ ringTid' \in Timers \cup {NULL}
      /\ age' \in [Slots -> Nat]
    BY <1>4, <2>1, EntryFields DEF PulseRing, TypeOK
  <2>. QED BY <1>4, <2>2 DEF PulseRing, TypeOK
<1>6. CASE PulseCall
  <2>1. lateCalls' \in [Timers -> Nat]
    <3>1. lateCalls \in [Timers -> Nat]
      BY DEF TypeOK
    <3>2. CASE life[ringTid] = "dead" /\ ringTid \in Timers
      BY <1>6, <3>1, <3>2 DEF PulseCall
    <3>3. CASE ringTid \notin Timers
      <4>1. [lateCalls EXCEPT ![ringTid] = lateCalls[ringTid] + 1] = lateCalls
        BY <3>1, <3>3
      <4>. QED BY <1>6, <3>1, <4>1 DEF PulseCall
    <3>4. CASE ~(life[ringTid] = "dead")
      BY <1>6, <3>1, <3>4 DEF PulseCall
    <3>. QED BY <3>2, <3>3, <3>4
  <2>. QED BY <1>6, <2>1 DEF PulseCall, TypeOK
<1>5. CASE PulseLockPause BY <1>5 DEF PulseLockPause, TypeOK
<1>7. CASE PulseSuppress BY <1>7 DEF PulseSuppress, TypeOK
<1>8. CASE CallbackReturns
  <2>1. fromFreed' \in BOOLEAN
    BY <1>8 DEF CallbackReturns
  <2>. QED BY <1>8, <2>1 DEF CallbackReturns, TypeOK
<1>9. CASE PulseUnlockPause BY <1>9 DEF PulseUnlockPause, TypeOK
<1>10. CASE PulseReloadLoad
  <2>1. index \in Slots /\ mTimers[index] \in Entry
    BY <1>10, RingingSlot DEF PulseReloadLoad
  <2>2. reload' \in Nat
    BY <1>10, <2>1, EntryFields DEF PulseReloadLoad
  <2>. QED BY <1>10, <2>2 DEF PulseReloadLoad, TypeOK
<1>11. CASE PulseReloadStore
  <2>1. index \in Slots /\ mTimers[index] \in Entry /\ reload \in Nat
    BY <1>11 DEF PulseReloadStore, TypeOK, Locks, Slots
  <2>2. [mTimers EXCEPT ![index].timerVal = reload] \in [Slots -> Entry]
    <3>1. [mTimers[index] EXCEPT !.timerVal = reload] \in Entry
      BY <2>1, EntryChanged
    <3>2. [mTimers EXCEPT ![index] = [mTimers[index] EXCEPT !.timerVal = reload]]
            \in [Slots -> Entry]
      BY <2>1, <3>1, ArrayWithEntry DEF TypeOK
    <3>. QED BY <3>2, Zenon
  <2>3. mTimers' \in [Slots -> Entry] /\ raced' \in SUBSET Slots
    BY <1>11, <2>1, <2>2 DEF PulseReloadStore, TypeOK
  <2>. QED BY <1>11, <2>3 DEF PulseReloadStore, TypeOK
<1>12. CASE PulseRelock BY <1>12 DEF PulseRelock, TypeOK, Locks
<1>13. CASE PulseEnd BY <1>13 DEF PulseEnd, TypeOK
<1>14. CASE PulseGate \/ PulseReload BY <1>14 DEF PulseGate, PulseReload, TypeOK
<1>15. CASE PulseReadEvent
  <2>1. index \in Slots /\ mTimers[index] \in Entry
    BY <1>15, RingingSlot DEF PulseReadEvent
  <2>2. callEvent' \in Timers \cup {NULL} /\ fromFreed' \in BOOLEAN
    BY <1>15, <2>1, EntryFields DEF PulseReadEvent
  <2>. QED BY <1>15, <2>2 DEF PulseReadEvent, TypeOK
<1>. QED
  BY <1>1, <1>2, <1>3, <1>4, <1>5, <1>6, <1>7, <1>8, <1>9, <1>10, <1>11, <1>12, <1>13, <1>14,
     <1>15 DEF Pulse

\* GetSlot, when there is a free slot, returns one.
LEMMA GetSlotIsFree == FreeSlots # {} => GetSlot \in FreeSlots
<1>1. FreeSlots \subseteq Nat
  BY DEF FreeSlots, Slots
<1>2. SUFFICES ASSUME FreeSlots # {}
               PROVE  \E i \in FreeSlots : \A j \in FreeSlots : i <= j
  BY Zenon DEF GetSlot
<1>3. \E i \in FreeSlots : \A j \in FreeSlots : ~(<<j, i>> \in OpToRel(<, Nat))
  BY <1>1, <1>2, WFMin, NatLessThanWellFounded
<1>4. \A i, j \in Nat : i < j => <<i, j>> \in OpToRel(<, Nat)
  BY DEF OpToRel
<1>5. \A i, j \in Nat : ~(j < i) => i <= j
  OBVIOUS
<1>. QED
  BY <1>1, <1>3, <1>4, <1>5, Zenon

\* The operations keep the types: in particular Grow stays within the array.
LEMMA CallsTypeOK == TypeOK /\ Locks /\ GrowInProgress /\ Calls => TypeOK'
<1> SUFFICES ASSUME TypeOK, Locks, GrowInProgress, Calls PROVE TypeOK'
  OBVIOUS
<1> USE DEF array, thread, history, Caller
<1>1. ASSUME NEW t \in Threads, NEW h \in Handlers, NEW v \in Periods,
             NEW k \in Timers, NEW ev \in {NULL, k}, CreateTimer(t, h, v, k, ev)
      PROVE  TypeOK'
  <2>1. GetSlot \in Slots
    BY <1>1, GetSlotIsFree DEF CreateTimer, FreeSlots
  <2>2. mTimers' \in [Slots -> Entry]
    BY <1>1, <2>1, StartedEntry, ArrayWithEntry DEF CreateTimer, Occupy, TypeOK
  <2>3. /\ tid' \in [Slots -> Timers \cup {NULL}]
        /\ life' \in [Timers -> {"unborn", "live", "dead"}]
        /\ age' \in [Slots -> Nat]
        /\ raced' \in SUBSET Slots
        /\ calls' \in Nat
    BY <1>1, <2>1 DEF CreateTimer, Occupy, TypeOK
  <2>. QED
    BY <1>1, <2>2, <2>3 DEF CreateTimer, TypeOK
<1>2. ASSUME NEW t \in Threads, NEW h \in Handlers, NEW v \in Periods,
             NEW k \in Timers, NEW ev \in {NULL, k}, GrowCopy(t, h, v, k, ev)
      PROVE  TypeOK'
  BY <1>2 DEF GrowCopy, TypeOK
<1>10. ASSUME NEW t \in Threads, GrowDelete(t)
       PROVE  TypeOK'
  BY <1>10 DEF GrowDelete, TypeOK
<1>3. ASSUME NEW t \in Threads, GrowInstall(t)
      PROVE  TypeOK'
  <2> USE DEF Grown
  <2>1. /\ mnElementCount + GrowBy - 1 \in Slots
        /\ mnElementCount' \in 0 .. MaxSlots
    BY <1>3 DEF GrowInstall, GrowInProgress, TypeOK, Slots, Locks
  <2>2. mTimers' \in [Slots -> Entry]
    BY <1>3, <2>1, StartedEntry, ArrayWithEntry
    DEF GrowInstall, Occupy, TypeOK, GrowInProgress, Locks
  <2>3. /\ tid' \in [Slots -> Timers \cup {NULL}]
        /\ life' \in [Timers -> {"unborn", "live", "dead"}]
        /\ age' \in [Slots -> Nat]
        /\ raced' \in SUBSET Slots
    BY <1>3, <2>1 DEF GrowInstall, Occupy, TypeOK, GrowInProgress, Locks
  <2>4. freed' \in BOOLEAN
    BY <1>3 DEF GrowInstall
  <2>. QED
    BY <1>3, <2>1, <2>2, <2>3, <2>4 DEF GrowInstall, TypeOK
<1>4. ASSUME NEW t \in Threads, NEW i \in Slots, KillTimer(t, i)
      PROVE  TypeOK'
  <2>1. mTimers' \in [Slots -> Entry]
    BY <1>4, FreeEntryIsEntry, ArrayWithEntry DEF KillTimer, TypeOK
  <2>2. /\ tid' \in [Slots -> Timers \cup {NULL}]
        /\ age' \in [Slots -> Nat]
        /\ raced' \in SUBSET Slots
        /\ calls' \in Nat
    BY <1>4 DEF KillTimer, TypeOK
  <2>3. life' \in [Timers -> {"unborn", "live", "dead"}]
    BY <1>4 DEF KillTimer, TypeOK
  <2>. QED
    BY <1>4, <2>1, <2>2, <2>3 DEF KillTimer, TypeOK
<1>5. ASSUME NEW t \in Threads, NEW i \in Slots, NEW e \in Entry, Update(t, i, e),
             age' \in [Slots -> Nat], raced' \in SUBSET Slots
      PROVE  TypeOK'
  <2>1. mTimers' \in [Slots -> Entry]
    BY <1>5, ArrayWithEntry DEF Update, TypeOK
  <2>. QED
    BY <1>5, <2>1 DEF Update, TypeOK
<1>6. ASSUME NEW t \in Threads, NEW i \in Slots,
             Reset(t, i) \/ Pause(t, i) \/ Resume(t, i) 
      PROVE  TypeOK'
  <2>1. /\ [mTimers[i] EXCEPT !.timerVal = mTimers[i].originalTimerVal, !.running = TRUE] \in Entry
        /\ [mTimers[i] EXCEPT !.running = FALSE] \in Entry
        /\ [mTimers[i] EXCEPT !.running = TRUE] \in Entry
    BY EntryFields, EntryChanged DEF TypeOK
  <2>2. age' \in [Slots -> Nat] /\ raced' \in SUBSET Slots
    BY <1>6 DEF TypeOK, Reset, Pause, Resume, Restarted
  <2>. QED
    BY <1>5, <1>6, <2>1, <2>2 DEF Reset, Pause, Resume
<1>7. ASSUME NEW t \in Threads, NEW i \in Slots, NEW v \in Periods, ChangeTimeout(t, i, v)
      PROVE  TypeOK'
  <2>1. [mTimers[i] EXCEPT !.timerVal = v, !.originalTimerVal = v] \in Entry
    BY EntryChanged DEF TypeOK
  <2>2. age' \in [Slots -> Nat] /\ raced' \in SUBSET Slots
    BY <1>7 DEF TypeOK, ChangeTimeout, Restarted
  <2>. QED
    BY <1>5, <1>7, <2>1, <2>2 DEF ChangeTimeout
<1>8. ASSUME NEW t \in Threads, NEW b \in BOOLEAN, SetPauseAll(t, b)
      PROVE  TypeOK'
  BY <1>8 DEF SetPauseAll, TypeOK
<1>9. ASSUME NEW c \in Clients, Destroy(c)
      PROVE  TypeOK'
  BY <1>9 DEF Destroy, TypeOK, Threads
<1>. QED
  <2>1. CASE \E t \in Threads, h \in Handlers, v \in Periods, k \in Timers :
               \E ev \in {NULL, k} : CreateTimer(t, h, v, k, ev) \/ GrowCopy(t, h, v, k, ev)
    BY <2>1, <1>1, <1>2
  <2>2. CASE \E t \in Threads : GrowDelete(t) \/ GrowInstall(t)
    BY <2>2, <1>3, <1>10
  <2>3. CASE \E t \in Threads, i \in Slots :
               KillTimer(t, i) \/ Reset(t, i) \/ Pause(t, i) \/ Resume(t, i)
    BY <2>3, <1>4, <1>6
  <2>4. CASE \E t \in Threads, i \in Slots, v \in Periods : ChangeTimeout(t, i, v)
    BY <2>4, <1>7
  <2>5. CASE \E t \in Threads : PauseAll(t) \/ UnPauseAll(t)
    BY <2>5, <1>8 DEF PauseAll, UnPauseAll
  <2>6. CASE \E c \in Clients : Destroy(c)
    BY <2>6, <1>9
  <2>. QED
    BY <2>1, <2>2, <2>3, <2>4, <2>5, <2>6 DEF Calls

-----------------------------------------------------------------------------
\* Most steps leave alone who owns which slot, with which handler and event.
KeepsOwnership ==
  /\ UNCHANGED <<mnElementCount, tid, life>>
  /\ pc' # "dead" => pc # "dead"
  /\ \A i \in Slots : /\ mTimers'[i].argument = mTimers[i].argument
                       /\ mTimers'[i].eventInfo = mTimers[i].eventInfo

\* The pulse thread changes counts only: no slot changes hands.
LEMMA PulseKeepsOwnership ==
  ASSUME TypeOK, Pulse
  PROVE  KeepsOwnership
<1>1. CASE PulseCountDown
  BY <1>1 DEF PulseCountDown, KeepsOwnership, TypeOK, Entry, Scanning
<1>2. CASE PulseReloadStore
  BY <1>2 DEF PulseReloadStore, KeepsOwnership, TypeOK, Entry, Goto
<1>3. CASE \/ PulseStart \/ PulseSkip \/ PulseRing \/ PulseLockPause \/ PulseGate
           \/ PulseReadEvent \/ PulseCall \/ PulseReload
  BY <1>3 DEF PulseStart, PulseSkip, PulseRing, PulseLockPause, PulseGate,
              PulseReadEvent, PulseCall, PulseReload,
              KeepsOwnership, Goto, array, history, thread, Scanning
<1>4. CASE PulseSuppress \/ CallbackReturns \/ PulseUnlockPause \/ PulseReloadLoad
           \/ PulseRelock \/ PulseEnd
  BY <1>4 DEF PulseSuppress, CallbackReturns, PulseUnlockPause, PulseReloadLoad,
              PulseRelock, PulseEnd, KeepsOwnership, Goto, array, history
<1>. QED
  BY <1>1, <1>2, <1>3, <1>4 DEF Pulse

\* Nor does a slot change hands by Reset, Pause, Resume or ChangeTimeout.
LEMMA UpdateKeepsOwnership ==
  ASSUME TypeOK, NEW t \in Threads, NEW i \in Slots, NEW v,
         Reset(t, i) \/ Pause(t, i) \/ Resume(t, i) \/ ChangeTimeout(t, i, v)
  PROVE  KeepsOwnership
<1>1. ASSUME NEW e, Update(t, i, e),
             e.argument = mTimers[i].argument, e.eventInfo = mTimers[i].eventInfo
      PROVE  KeepsOwnership
  BY <1>1 DEF Update, KeepsOwnership, TypeOK, thread
<1>2. mTimers[i] \in Entry
  BY DEF TypeOK
<1>3. CASE Reset(t, i)
  BY <1>1, <1>2, <1>3 DEF Reset, Entry
<1>4. CASE Pause(t, i) \/ Resume(t, i)
  BY <1>1, <1>2, <1>4 DEF Pause, Resume, Entry
<1>5. CASE ChangeTimeout(t, i, v)
  BY <1>1, <1>2, <1>5 DEF ChangeTimeout, Entry
<1>. QED
  BY <1>3, <1>4, <1>5

\* CreateTimer writes a slot of the array that no timer owns.
LEMMA CreateTimerFacts ==
  ASSUME TypeOK, LiveTimersKeepTheirSlot, 
         NEW t \in Threads, NEW h \in Handlers, NEW v \in Periods,
         NEW k \in Timers, NEW ev \in {NULL, k}, CreateTimer(t, h, v, k, ev)
  PROVE  /\ GetSlot \in Slots
         /\ GetSlot < mnElementCount
         /\ tid[GetSlot] = NULL
<1>1. GetSlot \in FreeSlots
  BY GetSlotIsFree DEF CreateTimer
<1>. QED
  BY <1>1 DEF FreeSlots, LiveTimersKeepTheirSlot, CreateTimer, Caller

\* So does a CreateTimer that has grown the array: the last of the new slots.
LEMMA GrowInstallFacts ==
  ASSUME TypeOK, Locks, GrowInProgress, LiveTimersKeepTheirSlot,
         NEW t \in Threads, GrowInstall(t)
  PROVE  /\ newTimerList # NULL
         /\ mnElementCount + GrowBy - 1 \in Slots
         /\ mnElementCount + GrowBy - 1 >= mnElementCount
         /\ tid[mnElementCount + GrowBy - 1] = NULL
<1>1. /\ mnElementCount + GrowBy - 1 \in Slots
      /\ mnElementCount + GrowBy - 1 >= mnElementCount
  BY DEF GrowInstall, Grown, GrowInProgress, Locks, TypeOK, Slots
<1>. QED
  BY <1>1 DEF GrowInstall, Grown, GrowInProgress, LiveTimersKeepTheirSlot, TypeOK,
              Slots, Locks

\* Starting an unborn timer in a slot that nobody owns keeps the owners of the
\* slots, whether the array was replaced by a copy or not.
LEMMA OccupyKeepsSlots ==
  ASSUME TypeOK, LiveTimersKeepTheirSlot, FreeSlotsHoldNoEvent,
         pc # "dead", pc' = pc,
         NEW list \in [Slots -> Entry],
         \A j \in Slots : /\ list[j].argument = mTimers[j].argument
                          /\ list[j].eventInfo = mTimers[j].eventInfo,
         NEW s \in Slots, tid[s] = NULL, 
         mnElementCount' \in Nat, mnElementCount <= mnElementCount', s < mnElementCount',
         NEW h \in Handlers, NEW v \in Periods, NEW k \in Timers,
         life[k] = "unborn", NEW ev, ev \in {NULL, k},
         Occupy(list, s, h, v, k, ev)
  PROVE  LiveTimersKeepTheirSlot' /\ FreeSlotsHoldNoEvent'
<1>1. /\ mTimers'[s].argument = h
      /\ mTimers'[s].eventInfo = ev
      /\ \A i \in Slots : i # s => mTimers'[i] = list[i]
  BY DEF Occupy
<1>2. /\ tid'[s] = k
      /\ \A i \in Slots : i # s => tid'[i] = tid[i]
      /\ life'[k] = "live"
      /\ \A j \in Timers : j # k => life'[j] = life[j]
  BY DEF Occupy, TypeOK
<1>3. h # NULL /\ k # NULL
  OBVIOUS
<1>4. \A i \in Slots : tid[i] # k
  BY <1>3 DEF LiveTimersKeepTheirSlot
<1>5. \A i \in Slots : mTimers'[i].argument # NULL <=> tid'[i] # NULL
  BY <1>1, <1>2, <1>3 DEF LiveTimersKeepTheirSlot
<1>6. \A i \in Slots : tid'[i] # NULL =>
        /\ i < mnElementCount'
        /\ life'[tid'[i]] = "live"
        /\ mTimers'[i].eventInfo \in {NULL, tid'[i]}
  <2>1. ASSUME NEW i \in Slots, tid'[i] # NULL, i # s
        PROVE  /\ i < mnElementCount'
               /\ life'[tid'[i]] = "live"
               /\ mTimers'[i].eventInfo \in {NULL, tid'[i]}
    <3>1. /\ i < mnElementCount
          /\ life[tid[i]] = "live"
          /\ mTimers[i].eventInfo \in {NULL, tid[i]}
      BY <2>1, <1>2 DEF LiveTimersKeepTheirSlot
    <3>2. tid[i] \in Timers /\ tid[i] # k
      BY <2>1, <1>2, <1>4 DEF TypeOK
    <3>. QED
      BY <2>1, <3>1, <3>2, <1>1, <1>2 DEF TypeOK, Slots
  <2>. QED
    BY <2>1, <1>1, <1>2
<1>7. \A j \in Timers : life'[j] = "live" => \E i \in Slots : tid'[i] = j
  BY <1>2, <1>3 DEF LiveTimersKeepTheirSlot
<1>8. \A i, j \in Slots : tid'[i] = tid'[j] /\ tid'[i] # NULL => i = j
  BY <1>2, <1>4 DEF LiveTimersKeepTheirSlot
<1>9. \A i \in Slots : tid'[i] = NULL => mTimers'[i].eventInfo = NULL
  BY <1>1, <1>2, <1>3 DEF FreeSlotsHoldNoEvent
<1>. QED
  BY <1>5, <1>6, <1>7, <1>8, <1>9, Zenon DEF LiveTimersKeepTheirSlot, FreeSlotsHoldNoEvent

\* KillTimer frees the slot of one live timer and touches no other.
LEMMA KillTimerFacts ==
  ASSUME TypeOK, LiveTimersKeepTheirSlot,
         NEW t \in Threads, NEW i \in Slots, KillTimer(t, i)
  PROVE  /\ pc # "dead" /\ pc' = pc
         /\ tid[i] \in Timers
         /\ life[tid[i]] = "live" /\ life'[tid[i]] = "dead"
         /\ \A k \in Timers : k # tid[i] => life'[k] = life[k]
         /\ tid'[i] = NULL
         /\ \A j \in Slots : j # i => tid'[j] = tid[j] /\ mTimers'[j] = mTimers[j]
         /\ mTimers'[i] = FreeEntry
         /\ mnElementCount' = mnElementCount
<1>1. pc # "dead" /\ pc' = pc /\ mnElementCount' = mnElementCount
  BY DEF KillTimer, Caller, thread
<1>2. tid[i] # NULL
  BY <1>1 DEF KillTimer, IsValid, LiveTimersKeepTheirSlot
<1>3. tid[i] \in Timers /\ life[tid[i]] = "live"
  BY <1>1, <1>2 DEF LiveTimersKeepTheirSlot, TypeOK
<1>. QED
  BY <1>1, <1>3 DEF KillTimer, TypeOK

\* Every step keeps the owners of the slots: one case per operation, and the
\* pulse thread as a whole.
LEMMA SlotsStep ==
  ASSUME TypeOK, TypeOK', Locks, GrowInProgress, 
         LiveTimersKeepTheirSlot, FreeSlotsHoldNoEvent, [Next]_vars
  PROVE  LiveTimersKeepTheirSlot' /\ FreeSlotsHoldNoEvent'
<1>1. CASE KeepsOwnership
  BY <1>1 DEF KeepsOwnership, LiveTimersKeepTheirSlot, FreeSlotsHoldNoEvent
<1>2. ASSUME NEW t \in Threads, NEW h \in Handlers, NEW v \in Periods,
             NEW k \in Timers, NEW ev \in {NULL, k}, CreateTimer(t, h, v, k, ev)
      PROVE  LiveTimersKeepTheirSlot' /\ FreeSlotsHoldNoEvent'
  <2>1. /\ GetSlot \in Slots
        /\ GetSlot < mnElementCount
        /\ tid[GetSlot] = NULL
    BY <1>2, CreateTimerFacts
  <2>2. /\ pc # "dead" /\ pc' = pc
        /\ mnElementCount' = mnElementCount /\ mnElementCount \in Nat
        /\ mTimers \in [Slots -> Entry]
        /\ life[k] = "unborn"
        /\ Occupy(mTimers, GetSlot, h, v, k, ev)
    BY <1>2 DEF CreateTimer, Caller, thread, TypeOK
  <2>. QED
    BY <2>1, <2>2, OccupyKeepsSlots
<1>3. ASSUME NEW t \in Threads, GrowInstall(t)
      PROVE  LiveTimersKeepTheirSlot' /\ FreeSlotsHoldNoEvent'
  <2>1. /\ mnElementCount + GrowBy - 1 \in Slots
        /\ mnElementCount + GrowBy - 1 >= mnElementCount
        /\ tid[mnElementCount + GrowBy - 1] = NULL
    BY <1>3, GrowInstallFacts
  <2>2. /\ pc # "dead" /\ pc' = pc
        /\ mnElementCount' = mnElementCount + GrowBy
        /\ newTimerList \in [Slots -> Entry]
        /\ creating.handler \in Handlers /\ creating.val \in Periods
        /\ creating.timer \in Timers /\ creating.event \in {NULL, creating.timer}
        /\ life[creating.timer] = "unborn"
        /\ \A j \in Slots : /\ newTimerList[j].argument = mTimers[j].argument
                             /\ newTimerList[j].eventInfo = mTimers[j].eventInfo
        /\ Occupy(newTimerList, mnElementCount + GrowBy - 1, creating.handler,
                  creating.val, creating.timer, creating.event)
    BY <1>3, GrowInstallFacts DEF GrowInstall, Grown, GrowInProgress, thread
  <2>3. /\ mnElementCount' \in Nat /\ mnElementCount <= mnElementCount'
        /\ mnElementCount + GrowBy - 1 < mnElementCount'
    BY <2>2 DEF TypeOK
  <2>. QED
    BY <2>1, <2>2, <2>3, OccupyKeepsSlots
<1>4. ASSUME NEW t \in Threads, NEW i \in Slots, KillTimer(t, i)
      PROVE  LiveTimersKeepTheirSlot' /\ FreeSlotsHoldNoEvent'
  <2>1. FreeEntry.argument = NULL /\ FreeEntry.eventInfo = NULL
    BY DEF FreeEntry
  <2>2. \A j \in Slots : mTimers'[j].argument # NULL <=> tid'[j] # NULL
    BY <1>4, <2>1, KillTimerFacts DEF LiveTimersKeepTheirSlot
  <2>3. \A j \in Slots : tid'[j] # NULL =>
          /\ j < mnElementCount'
          /\ life'[tid'[j]] = "live"
          /\ mTimers'[j].eventInfo \in {NULL, tid'[j]}
    BY <1>4, KillTimerFacts DEF LiveTimersKeepTheirSlot, TypeOK
  <2>4. \A k \in Timers : life'[k] = "live" => \E j \in Slots : tid'[j] = k
    BY <1>4, KillTimerFacts DEF LiveTimersKeepTheirSlot
  <2>5. \A j, m \in Slots : tid'[j] = tid'[m] /\ tid'[j] # NULL => j = m
    BY <1>4, KillTimerFacts DEF LiveTimersKeepTheirSlot
  <2>6. \A j \in Slots : tid'[j] = NULL => mTimers'[j].eventInfo = NULL
    BY <1>4, <2>1, KillTimerFacts DEF FreeSlotsHoldNoEvent
  <2>. QED
    BY <2>2, <2>3, <2>4, <2>5, <2>6, Zenon
    DEF LiveTimersKeepTheirSlot, FreeSlotsHoldNoEvent
<1>5. ASSUME NEW c \in Clients, Destroy(c)
      PROVE  LiveTimersKeepTheirSlot' /\ FreeSlotsHoldNoEvent'
  BY <1>5 DEF Destroy, LiveTimersKeepTheirSlot, FreeSlotsHoldNoEvent
<1>6. ASSUME NEW t \in Threads, NEW b \in BOOLEAN, SetPauseAll(t, b)
      PROVE  KeepsOwnership
  BY <1>6 DEF SetPauseAll, KeepsOwnership, array, history, thread
<1>7. ASSUME NEW t \in Threads, NEW h \in Handlers, NEW v \in Periods,
             NEW k \in Timers, NEW ev \in {NULL, k}, GrowCopy(t, h, v, k, ev)
      PROVE  KeepsOwnership
  BY <1>7 DEF GrowCopy, KeepsOwnership, history, thread
<1>10. ASSUME NEW t \in Threads, GrowDelete(t)
       PROVE  KeepsOwnership
  BY <1>10 DEF GrowDelete, KeepsOwnership, history, thread
<1>8. CASE UNCHANGED vars
  BY <1>1, <1>8 DEF vars, KeepsOwnership, array, history, thread
<1>9. CASE Calls
  <2>1. CASE \E t \in Threads, h \in Handlers, v \in Periods, k \in Timers :
               \E ev \in {NULL, k} : CreateTimer(t, h, v, k, ev) \/ GrowCopy(t, h, v, k, ev)
    BY <2>1, <1>1, <1>2, <1>7
  <2>2. CASE \E t \in Threads : GrowDelete(t) \/ GrowInstall(t)
    BY <2>2, <1>1, <1>3, <1>10
  <2>3. CASE \E t \in Threads, i \in Slots :
               KillTimer(t, i) \/ Reset(t, i) \/ Pause(t, i) \/ Resume(t, i)
    BY <2>3, <1>1, <1>4, UpdateKeepsOwnership
  <2>4. CASE \E t \in Threads, i \in Slots, v \in Periods : ChangeTimeout(t, i, v)
    BY <2>4, <1>1, UpdateKeepsOwnership
  <2>5. CASE \E t \in Threads : PauseAll(t) \/ UnPauseAll(t)
    BY <2>5, <1>1, <1>6 DEF PauseAll, UnPauseAll
  <2>6. CASE \E c \in Clients : Destroy(c)
    BY <2>6, <1>5
  <2>. QED
    BY <1>9, <2>1, <2>2, <2>3, <2>4, <2>5, <2>6 DEF Calls
<1>. QED
  BY <1>1, <1>8, <1>9, PulseKeepsOwnership DEF Next

-----------------------------------------------------------------------------
\* Every step keeps what the two locks mean.
LEMMA LocksStep ==
  ASSUME TypeOK, TypeOK', Locks, GrowInProgress, [Next]_vars
  PROVE  Locks'
<1>1. ASSUME UNCHANGED thread, UNCHANGED mPauseLock, mnElementCount <= mnElementCount',
             pc = "scan" => UNCHANGED <<mMutex, newTimerList>>,
             freed' => newTimerList' # NULL
      PROVE  Locks'
  BY <1>1 DEF Locks, thread, TypeOK
<1>2. ASSUME NEW t \in Threads, NEW h \in Handlers, NEW v \in Periods,
             NEW k \in Timers, NEW ev \in {NULL, k},
             CreateTimer(t, h, v, k, ev) \/ GrowCopy(t, h, v, k, ev)
      PROVE  Locks'
  BY <1>1, <1>2 DEF CreateTimer, GrowCopy, Caller, Locks, TypeOK, GrowInProgress
<1>3. ASSUME NEW t \in Threads, GrowDelete(t) \/ GrowInstall(t)
      PROVE  Locks'
  BY <1>1, <1>3 DEF GrowDelete, GrowInstall, Grown, Locks, TypeOK
<1>4. ASSUME NEW t \in Threads, NEW i \in Slots, NEW v,
             KillTimer(t, i) \/ Reset(t, i) \/ Pause(t, i) \/ Resume(t, i)
               \/ ChangeTimeout(t, i, v)
      PROVE  Locks'
  BY <1>1, <1>4 DEF KillTimer, Reset, Pause, Resume, ChangeTimeout, Update, TypeOK, Locks
<1>5. ASSUME NEW t \in Threads, NEW b \in BOOLEAN, SetPauseAll(t, b)
      PROVE  Locks'
  BY <1>1, <1>5 DEF SetPauseAll, array, TypeOK, Locks
<1>6. ASSUME NEW c \in Clients, Destroy(c)
      PROVE  Locks'
  BY <1>6 DEF Destroy, Locks
<1>7. CASE PulseStart \/ PulseSkip \/ PulseCountDown \/ PulseEnd \/ PulseRelock
  <2>1. newTimerList' = NULL \/ pc' = "tick"
    BY <1>7 DEF PulseStart, PulseSkip, PulseCountDown, PulseEnd, PulseRelock, 
                Goto, array, Scanning, Locks, GrowInProgress
  <2>. QED
    BY <1>7, <2>1 DEF PulseStart, PulseSkip, PulseCountDown, PulseEnd, PulseRelock,
                      Goto, array, Scanning, Locks, TypeOK
<1>8. CASE PulseRing \/ PulseLockPause \/ PulseGate \/ PulseReadEvent \/ PulseCall
           \/ PulseSuppress
  BY <1>8 DEF PulseRing, PulseLockPause, PulseGate, PulseReadEvent, PulseCall,
              PulseSuppress, Goto, array, Scanning, Locks, TypeOK
<1>9. CASE CallbackReturns \/ PulseUnlockPause \/ PulseReload
  BY <1>9 DEF CallbackReturns, PulseUnlockPause, PulseReload, Goto, array, Locks
<1>10. CASE PulseReloadLoad
  <2>1. reload' \in Nat
    <3>1. mTimers[index] \in Entry
      BY <1>10, RingingSlot DEF PulseReloadLoad, Goto
    <3>. QED
      BY <1>10, <3>1, EntryFields DEF PulseReloadLoad
  <2>. QED
    BY <1>10, <2>1 DEF PulseReloadLoad, Goto, array, Locks
<1>11. CASE PulseReloadStore
  BY <1>11 DEF PulseReloadStore, Goto, Locks
<1>12. CASE UNCHANGED vars
  BY <1>1, <1>12 DEF vars, array, TypeOK, Locks
<1>13. CASE Calls
  <2>1. CASE \E t \in Threads, h \in Handlers, v \in Periods, k \in Timers :
               \E ev \in {NULL, k} : CreateTimer(t, h, v, k, ev) \/ GrowCopy(t, h, v, k, ev)
    BY <2>1, <1>2
  <2>2. CASE \E t \in Threads, i \in Slots :
               KillTimer(t, i) \/ Reset(t, i) \/ Pause(t, i) \/ Resume(t, i)
    BY <2>2, <1>4
  <2>3. CASE \E t \in Threads, i \in Slots, v \in Periods : ChangeTimeout(t, i, v)
    BY <2>3, <1>4
  <2>4. CASE \E t \in Threads : PauseAll(t) \/ UnPauseAll(t)
    BY <2>4, <1>5 DEF PauseAll, UnPauseAll
  <2>. QED
    BY <1>13, <1>3, <1>6, <2>1, <2>2, <2>3, <2>4 DEF Calls
<1>. QED
  BY <1>7, <1>8, <1>9, <1>10, <1>11, <1>12, <1>13 DEF Next, Pulse

\* A callback starts only with mPauseAll false, and PauseAll needs the lock that
\* the pulse thread holds while a callback runs.
LEMMA PauseAllStep ==
  ASSUME TypeOK, Locks, PauseAllQuiesces, [Next]_vars
  PROVE  PauseAllQuiesces'
<1> USE DEF PauseAllQuiesces
<1>1. ASSUME UNCHANGED <<mPauseAll, pauser>>,
             pc' = pc \/ pc' \notin {"read", "call", "callback"}
      PROVE  PauseAllQuiesces'
  BY <1>1
<1>2. ASSUME NEW t \in Threads, NEW b \in BOOLEAN, SetPauseAll(t, b)
      PROVE  PauseAllQuiesces'
  BY <1>2 DEF SetPauseAll, Locks, thread, TypeOK, Threads
<1>3. CASE PulseGate \/ PulseReadEvent \/ PulseCall
  BY <1>3 DEF PulseGate, PulseReadEvent, PulseCall, Goto
<1>4. CASE \/ PulseStart \/ PulseSkip \/ PulseCountDown \/ PulseRing \/ PulseLockPause
           \/ PulseSuppress \/ CallbackReturns
  BY <1>1, <1>4 DEF PulseStart, PulseSkip, PulseCountDown, PulseRing, PulseLockPause,
                    PulseSuppress, CallbackReturns, Goto
<1>5. CASE \/ PulseUnlockPause \/ PulseReload \/ PulseReloadLoad \/ PulseReloadStore
           \/ PulseRelock \/ PulseEnd
  BY <1>1, <1>5 DEF PulseUnlockPause, PulseReload, PulseReloadLoad, PulseReloadStore,
                    PulseRelock, PulseEnd, Goto
<1>6. CASE Calls
  <2>1. CASE \E t \in Threads : PauseAll(t) \/ UnPauseAll(t)
    BY <2>1, <1>2 DEF PauseAll, UnPauseAll
  <2>2. CASE ~ \E t \in Threads : PauseAll(t) \/ UnPauseAll(t)
    <3>1. UNCHANGED <<mPauseAll, pauser>> /\ (pc' = pc \/ pc' = "dead")
      BY <1>6, <2>2 DEF Calls, CreateTimer, GrowCopy, GrowDelete, GrowInstall, Grown,
           KillTimer, Reset, Pause, Resume, ChangeTimeout, Update, Destroy, thread
    <3>. QED
      BY <1>1, <3>1
  <2>. QED
    BY <2>1, <2>2
<1>7. CASE UNCHANGED vars
  BY <1>1, <1>7 DEF vars, thread
<1>. QED
  BY <1>3, <1>4, <1>5, <1>6, <1>7 DEF Next, Pulse

\* Only its own thread takes the manager out of the steps of Grow: while
\* the mutex is held by a caller, no call and no step of the scan is enabled.
LEMMA GrowStep ==
  ASSUME TypeOK, TypeOK', Locks, GrowInProgress, [Next]_vars
  PROVE  GrowInProgress'
<1>1. ASSUME UNCHANGED <<mnElementCount, newTimerList, creating, mMutex, life>>,
             \A i \in Slots : /\ mTimers'[i].argument = mTimers[i].argument
                              /\ mTimers'[i].eventInfo = mTimers[i].eventInfo,
             newTimerList # NULL => pc' # "dead",
             newTimerList # NULL /\ mMutex = TimerThread => pc' = "callback"
      PROVE  GrowInProgress'
  BY <1>1 DEF GrowInProgress
<1>2. ASSUME newTimerList' = NULL
      PROVE  GrowInProgress'
  BY <1>2 DEF GrowInProgress
<1>3. mMutex = NULL => newTimerList = NULL
  BY DEF GrowInProgress
<1>4. ASSUME NEW t \in Threads, NEW h \in Handlers, NEW v \in Periods,
             NEW k \in Timers, NEW ev \in {NULL, k}, GrowCopy(t, h, v, k, ev)
      PROVE  GrowInProgress'
  <2>1. /\ pc' # "dead" /\ mMutex' # NULL /\ (mMutex' = TimerThread => pc' = "callback")
        /\ mnElementCount' + GrowBy <= MaxSlots
    BY <1>4 DEF GrowCopy, Caller, thread, Threads
  <2>2. newTimerList' \in [Slots -> Entry] /\ mTimers' = newTimerList'
    BY <1>4 DEF GrowCopy, TypeOK
  <2>3. /\ creating' \in [handler : Handlers, val : Periods, timer : Timers,
                          event : Timers \cup {NULL}]
        /\ creating' = [handler |-> h, val |-> v, timer |-> k, event |-> ev]
        /\ life'[k] = "unborn"
    BY <1>4 DEF GrowCopy, history
  <2>. QED
    BY <2>1, <2>2, <2>3 DEF GrowInProgress
<1>5. CASE Calls
  <2>1. CASE \E t \in Threads, h \in Handlers, v \in Periods, k \in Timers :
               \E ev \in {NULL, k} : CreateTimer(t, h, v, k, ev) \/ GrowCopy(t, h, v, k, ev)
    <3>1. ASSUME NEW t \in Threads, NEW h \in Handlers, NEW v \in Periods,
                 NEW k \in Timers, NEW ev \in {NULL, k}, CreateTimer(t, h, v, k, ev)
          PROVE  GrowInProgress'
      BY <1>2, <1>3, <3>1 DEF CreateTimer, Caller
    <3>. QED
      BY <2>1, <3>1, <1>4
  <2>2. CASE \E t \in Threads : GrowDelete(t) \/ GrowInstall(t)
    BY <2>2, <1>1, <1>2 DEF GrowDelete, GrowInstall, Grown, GrowInProgress, history, thread
  <2>3. CASE \E t \in Threads, i \in Slots :
               KillTimer(t, i) \/ Reset(t, i) \/ Pause(t, i) \/ Resume(t, i)
    BY <2>3, <1>2, <1>3 DEF KillTimer, Reset, Pause, Resume, Update, Caller
  <2>4. CASE \E t \in Threads, i \in Slots, v \in Periods : ChangeTimeout(t, i, v)
    BY <2>4, <1>2, <1>3 DEF ChangeTimeout, Update, Caller
  <2>5. CASE \E t \in Threads : PauseAll(t) \/ UnPauseAll(t)
    BY <2>5, <1>1 DEF PauseAll, UnPauseAll, SetPauseAll, array, history, thread,
                      GrowInProgress
  <2>6. CASE \E c \in Clients : Destroy(c)
    BY <2>6, <1>2, <1>3 DEF Destroy, Caller
  <2>. QED
    BY <1>5, <2>1, <2>2, <2>3, <2>4, <2>5, <2>6 DEF Calls
<1>6. CASE Pulse
  <2>1. CASE newTimerList = NULL
    <3>1. newTimerList' = newTimerList
      BY <1>6 DEF Pulse, PulseStart, PulseSkip, PulseCountDown, PulseRing, PulseLockPause,
                  PulseGate, PulseReadEvent, PulseCall, PulseSuppress, CallbackReturns,
                  PulseUnlockPause, PulseReload, PulseReloadLoad, PulseReloadStore,
                  PulseRelock, PulseEnd, array
    <3>. QED
      BY <1>2, <2>1, <3>1
  <2>2. CASE newTimerList # NULL
    <3>1. pc # "scan" /\ mMutex # NULL
      BY <2>2 DEF Locks, GrowInProgress
    <3>2. \/ PulseLockPause \/ PulseGate \/ PulseReadEvent \/ PulseCall
          \/ PulseSuppress \/ CallbackReturns \/ PulseUnlockPause
          \/ PulseReload \/ PulseReloadLoad \/ PulseReloadStore
      BY <1>6, <3>1 DEF Pulse, PulseStart, PulseSkip, PulseCountDown, PulseRing,
                        PulseRelock, PulseEnd, Scanning
    <3>3. /\ UNCHANGED <<mnElementCount, newTimerList, creating, mMutex>>
          /\ pc' # "dead"
          /\ mMutex = TimerThread => pc' = "callback"
      BY <2>2, <3>2 DEF PulseLockPause, PulseGate, PulseReadEvent, PulseCall,
           PulseSuppress, CallbackReturns, PulseUnlockPause, PulseReload,
           PulseReloadLoad, PulseReloadStore, Goto, array, GrowInProgress
    <3>. QED
      BY <1>1, <1>6, <3>3, PulseKeepsOwnership DEF KeepsOwnership
  <2>. QED
    BY <2>1, <2>2
<1>7. CASE UNCHANGED vars
  BY <1>1, <1>7 DEF vars, array, history, thread, GrowInProgress
<1>. QED
  BY <1>5, <1>6, <1>7 DEF Next

-----------------------------------------------------------------------------
\* What happens to the timer whose expiry is being handled, and to the others.

LifeMoves ==
  \A k \in Timers : \/ life'[k] = life[k]
                    \/ life[k] = "unborn" /\ life'[k] = "live"
                    \/ life[k] = "live" /\ life'[k] = "dead"

\* Calls never touch the expiry, and leave its timer where it is or kill it.
LEMMA CallsLife ==
  ASSUME TypeOK, Locks, GrowInProgress, LiveTimersKeepTheirSlot, Calls
  PROVE  /\ LifeMoves
         /\ UNCHANGED <<ringTid, index, callEvent, fromFreed, lateCalls>>
         /\ pc' = pc \/ pc' = "dead"
         /\ pc' # "dead" => \A k \in Timers, i \in Slots :
              tid[i] = k /\ life'[k] # "dead" => tid'[i] = k
<1> DEFINE Goal == /\ LifeMoves
                   /\ UNCHANGED <<ringTid, index, callEvent, fromFreed, lateCalls>>
                   /\ pc' = pc \/ pc' = "dead"
                   /\ pc' # "dead" => \A k \in Timers, i \in Slots :
                         tid[i] = k /\ life'[k] # "dead" => tid'[i] = k
<1>1. ASSUME NEW list, NEW s \in Slots, NEW h, NEW v, NEW k \in Timers, NEW ev,
             Occupy(list, s, h, v, k, ev), tid[s] = NULL, life[k] = "unborn",
             UNCHANGED <<thread, lateCalls>>
      PROVE  Goal
  BY <1>1 DEF Occupy, LifeMoves, thread, TypeOK
<1>2. ASSUME UNCHANGED <<life, tid, ringTid, index, callEvent, fromFreed, lateCalls>>,
             pc' = pc \/ pc' = "dead"
      PROVE  Goal
  BY <1>2 DEF LifeMoves
<1>3. ASSUME NEW t \in Threads, NEW h \in Handlers, NEW v \in Periods,
             NEW k \in Timers, NEW ev \in {NULL, k}, CreateTimer(t, h, v, k, ev)
      PROVE  Goal
  BY <1>1, <1>3, CreateTimerFacts DEF CreateTimer
<1>4. ASSUME NEW t \in Threads, NEW h \in Handlers, NEW v \in Periods,
             NEW k \in Timers, NEW ev \in {NULL, k}, GrowCopy(t, h, v, k, ev)
      PROVE  Goal
  BY <1>2, <1>4 DEF GrowCopy, history, thread
<1>14. ASSUME NEW t \in Threads, GrowDelete(t)
       PROVE  Goal
  BY <1>2, <1>14 DEF GrowDelete, history, thread
<1>5. ASSUME NEW t \in Threads, GrowInstall(t)
      PROVE  Goal
  <2>1. creating.timer \in Timers /\ life[creating.timer] = "unborn"
    BY <1>5, GrowInstallFacts DEF GrowInProgress
  <2>. QED
    BY <1>1, <1>5, <2>1, GrowInstallFacts DEF GrowInstall, Grown
<1>6. ASSUME NEW t \in Threads, NEW i \in Slots, KillTimer(t, i)
      PROVE  Goal
  <2>1. LifeMoves
    BY <1>6, KillTimerFacts DEF LifeMoves
  <2>2. \A k \in Timers, j \in Slots : tid[j] = k /\ life'[k] # "dead" => tid'[j] = k
    BY <1>6, KillTimerFacts
  <2>3. UNCHANGED <<ringTid, index, callEvent, fromFreed, lateCalls>> /\ pc' = pc
    BY <1>6 DEF KillTimer, thread
  <2>. QED
    BY <2>1, <2>2, <2>3
<1>7. ASSUME NEW t \in Threads, NEW i \in Slots, NEW v,
             Reset(t, i) \/ Pause(t, i) \/ Resume(t, i) \/ ChangeTimeout(t, i, v)
      PROVE  Goal
  BY <1>2, <1>7 DEF Reset, Pause, Resume, ChangeTimeout, Update, thread
<1>8. ASSUME NEW t \in Threads, NEW b, SetPauseAll(t, b)
      PROVE  Goal
  BY <1>2, <1>8 DEF SetPauseAll, history, thread
<1>9. ASSUME NEW c \in Clients, Destroy(c)
      PROVE  Goal
  BY <1>2, <1>9 DEF Destroy, history
<1>10. CASE \E t \in Threads, h \in Handlers, v \in Periods, k \in Timers :
               \E ev \in {NULL, k} : CreateTimer(t, h, v, k, ev) \/ GrowCopy(t, h, v, k, ev)
  BY <1>3, <1>4, <1>10
<1>11. CASE \E t \in Threads, i \in Slots :
               KillTimer(t, i) \/ Reset(t, i) \/ Pause(t, i) \/ Resume(t, i)
  BY <1>6, <1>7, <1>11
<1>12. CASE \E t \in Threads, i \in Slots, v \in Periods : ChangeTimeout(t, i, v)
  BY <1>7, <1>12
<1>13. CASE \E t \in Threads : PauseAll(t) \/ UnPauseAll(t)
  BY <1>8, <1>13 DEF PauseAll, UnPauseAll
<1>. QED
  BY <1>5, <1>9, <1>10, <1>11, <1>12, <1>13, <1>14 DEF Calls

\* Outside PulseRing, PulseReadEvent, PulseCall and PulseRelock the thread keeps
\* the expiry too.
LEMMA PulseExpiry ==
  ASSUME Pulse
  PROVE  \/ PulseRing
         \/ PulseReadEvent
         \/ PulseCall
         \/ /\ UNCHANGED <<tid, life, ringTid, index, lateCalls>>
            /\ pc' \in {"gate", "read"}
            /\ pc \in {"ring", "gate"}
         \/ /\ UNCHANGED <<tid, life, lateCalls>>
            /\ pc' \notin {"ring", "gate", "read", "call", "callback"}
<1>1. CASE PulseStart \/ PulseSkip \/ PulseCountDown \/ PulseRelock \/ PulseEnd
  BY <1>1 DEF PulseStart, PulseSkip, PulseCountDown, PulseRelock, PulseEnd, Scanning,
              Goto, array, history, thread
<1>2. CASE PulseLockPause \/ PulseGate
  BY <1>2 DEF PulseLockPause, PulseGate, Goto, array, history
<1>3. CASE PulseSuppress \/ CallbackReturns
  BY <1>3 DEF PulseSuppress, CallbackReturns, Goto, array, history
<1>4. CASE PulseUnlockPause \/ PulseReload \/ PulseReloadLoad \/ PulseReloadStore
  BY <1>4 DEF PulseUnlockPause, PulseReload, PulseReloadLoad, PulseReloadStore, Goto,
              array, history
<1>. QED
  BY <1>1, <1>2, <1>3, <1>4 DEF Pulse

\* The pulse thread handles the expiry of the timer in the slot it stopped at,
\* unless that timer was killed since.
LEMMA ExpiryStep ==
  ASSUME TypeOK, Locks, GrowInProgress, LiveTimersKeepTheirSlot, ExpiryTracked, [Next]_vars
  PROVE  ExpiryTracked'
<1>1. CASE Calls
  BY <1>1, CallsLife DEF ExpiryTracked, LifeMoves, Locks, TypeOK, Slots
<1>2. CASE PulseRing
  <2>1. index \in Slots /\ tid[index] # NULL /\ pc # "dead"
    BY <1>2 DEF PulseRing, Scanning, Armed, IsValid, TypeOK, Slots, LiveTimersKeepTheirSlot
  <2>. QED
    BY <1>2, <2>1 DEF PulseRing, ExpiryTracked, LiveTimersKeepTheirSlot, TypeOK
<1>3. CASE PulseReadEvent \/ PulseCall
  BY <1>3 DEF PulseReadEvent, PulseCall, Goto, ExpiryTracked, history
<1>4. CASE UNCHANGED vars
  BY <1>4 DEF vars, ExpiryTracked, history, thread
<1>. QED
  BY <1>1, <1>2, <1>3, <1>4, PulseExpiry DEF Next, ExpiryTracked

\* The event is read from the slot of the expiring timer, so it is another
\* timer's only after a kill.
LEMMA ForeignStep ==
  ASSUME TypeOK, Locks, GrowInProgress, LiveTimersKeepTheirSlot, FreeSlotsHoldNoEvent,
         ExpiryTracked, ForeignEventOnlyAfterKill, [Next]_vars
  PROVE  ForeignEventOnlyAfterKill'
<1>1. CASE Calls
  BY <1>1, CallsLife DEF ExpiryTracked, LifeMoves, ForeignEventOnlyAfterKill
<1>2. CASE PulseReadEvent
  <2> SUFFICES ASSUME ~fromFreed'
               PROVE  ForeignEventOnlyAfterKill'
    BY DEF ForeignEventOnlyAfterKill
  <2>1. index \in Slots /\ pc = "read" /\ callEvent' = mTimers[index].eventInfo
    BY <1>2, RingingSlot DEF PulseReadEvent, Goto
  <2>2. CASE tid[index] = ringTid
    BY <1>2, <2>1, <2>2 DEF PulseReadEvent, ForeignEventOnlyAfterKill,
                            LiveTimersKeepTheirSlot, ExpiryTracked
  <2>3. CASE life[ringTid] = "dead"
    BY <1>2, <2>3 DEF PulseReadEvent, ForeignEventOnlyAfterKill, history
  <2>. QED
    BY <2>1, <2>2, <2>3 DEF ExpiryTracked
<1>5. CASE PulseCall
  BY <1>5 DEF PulseCall, Goto, ForeignEventOnlyAfterKill, history
<1>3. CASE PulseRing
  BY <1>3 DEF PulseRing, ForeignEventOnlyAfterKill
<1>4. CASE UNCHANGED vars
  BY <1>4 DEF vars, ForeignEventOnlyAfterKill, history, thread
<1>. QED
  BY <1>1, <1>2, <1>3, <1>4, <1>5, PulseExpiry DEF Next, ForeignEventOnlyAfterKill

\* The expiry of a killed timer is handled once, and no other starts.
LEMMA LateStep ==
  ASSUME TypeOK, Locks, GrowInProgress, LiveTimersKeepTheirSlot, ExpiryTracked,
         LateCallsSpent, [Next]_vars
  PROVE  LateCallsSpent'
<1>1. CASE Calls
  BY <1>1, CallsLife DEF LifeMoves, LateCallsSpent
<1>2. CASE PulseRing
  <2>1. index \in Slots /\ tid[index] # NULL /\ pc # "dead"
    BY <1>2 DEF PulseRing, Scanning, Armed, IsValid, TypeOK, Slots, LiveTimersKeepTheirSlot
  <2>2. life[tid[index]] = "live" /\ ringTid' = tid[index]
    BY <1>2, <2>1 DEF PulseRing, LiveTimersKeepTheirSlot
  <2>. QED
    BY <1>2, <2>2 DEF PulseRing, LateCallsSpent
<1>3. CASE PulseCall
  <2>1. ringTid \in Timers /\ pc = "call" /\ pc' = "callback" /\ life' = life
    BY <1>3 DEF PulseCall, Goto, ExpiryTracked, history
  <2>2. lateCalls[ringTid] = 0
    BY <2>1 DEF LateCallsSpent
  <2>3. \A k \in Timers : lateCalls'[k] = IF k = ringTid /\ life[k] = "dead" THEN 1 ELSE lateCalls[k]
    BY <1>3, <2>1, <2>2 DEF PulseCall, TypeOK
  <2>. QED
    BY <2>1, <2>3 DEF LateCallsSpent
<1>4. CASE UNCHANGED vars
  BY <1>4 DEF vars, LateCallsSpent, history, thread
<1>5. CASE PulseReadEvent
  BY <1>5 DEF PulseReadEvent, Goto, LateCallsSpent, history
<1>. QED
  BY <1>1, <1>2, <1>3, <1>4, <1>5, PulseExpiry DEF Next, LateCallsSpent

-----------------------------------------------------------------------------
\* The counts.

\* One more tick counted adds the precision.
LEMMA TickCounted ==
  ASSUME NEW n \in Nat
  PROVE  (n + 1) * Precision = n * Precision + Precision
BY TimerAssumption

\* Starting or restarting slot s makes its count complete, whatever it was.
LEMMA RestartedSlot ==
  ASSUME TypeOK, TypeOK', CountsComplete, pc # "dead", UNCHANGED <<pc, index>>,
         NEW list \in [Slots -> Entry], newTimerList' = NULL,
         list = mTimers \/ (newTimerList # NULL /\ list = newTimerList),
         NEW s \in Slots, NEW e \in Entry, e.timerVal = e.originalTimerVal,
         mTimers' = [list EXCEPT ![s] = e],
         age' = [age EXCEPT ![s] = 0], raced' = raced \ {s}
  PROVE  CountsComplete'
<1> SUFFICES ASSUME NEW i \in Slots, i \notin raced', ~Expired(i)'
             PROVE  mTimers'[i].timerVal + age'[i] * Precision >= mTimers'[i].originalTimerVal
  BY DEF CountsComplete
<1>1. CASE i = s
  <2>1. mTimers'[i] = e /\ age'[i] = 0
    BY <1>1 DEF TypeOK
  <2>. QED
    BY <2>1, EntryFields, TimerAssumption
<1>2. CASE i # s
  <2>1. i \notin raced /\ ~Expired(i)
    BY <1>2 DEF Expired
  <2>2. mTimers'[i] = mTimers[i] /\ age'[i] = age[i]
    BY <1>2, <2>1 DEF CountsComplete, TypeOK
  <2>. QED
    BY <2>1, <2>2 DEF CountsComplete
<1>. QED
  BY <1>1, <1>2

\* Every step keeps the counts complete: what was counted since a restart and
\* what is left to count add up to the period or more.
LEMMA CountsStep ==
  ASSUME TypeOK, TypeOK', Locks, GrowInProgress, LiveTimersKeepTheirSlot, CountsComplete,
         [Next]_vars
  PROVE  CountsComplete'
<1>1. ASSUME UNCHANGED <<mTimers, newTimerList, age, raced>>,
             pc' # "dead" => pc # "dead" /\ \A i \in Slots : Expired(i) => Expired(i)'
      PROVE  CountsComplete'
  BY <1>1 DEF CountsComplete
<1>2. mMutex = NULL => newTimerList = NULL
  BY DEF GrowInProgress
<1>3. ASSUME NEW t \in Threads, NEW h \in Handlers, NEW v \in Periods,
             NEW k \in Timers, NEW ev \in {NULL, k}, CreateTimer(t, h, v, k, ev)
      PROVE  CountsComplete'
  <2> DEFINE e == [argument |-> h, timerVal |-> v, originalTimerVal |-> v,
                   running |-> TRUE, eventInfo |-> ev]
  <2>1. GetSlot \in Slots /\ e \in Entry /\ e.timerVal = e.originalTimerVal
    <3>1. GetSlot \in Slots
      BY <1>3, CreateTimerFacts
    <3>2. ev \in Timers \cup {NULL}
      OBVIOUS
    <3>. QED
      BY <3>1, <3>2, StartedEntry
  <2>2. /\ pc # "dead" /\ UNCHANGED <<pc, index>>
        /\ newTimerList' = NULL
        /\ mTimers \in [Slots -> Entry]
        /\ mTimers' = [mTimers EXCEPT ![GetSlot] = e]
        /\ age' = [age EXCEPT ![GetSlot] = 0] /\ raced' = raced \ {GetSlot}
    BY <1>2, <1>3 DEF CreateTimer, Caller, Occupy, thread, TypeOK
  <2>. QED
    BY <2>1, <2>2, RestartedSlot
<1>4. ASSUME NEW t \in Threads, NEW h \in Handlers, NEW v \in Periods,
             NEW k \in Timers, NEW ev \in {NULL, k}, GrowCopy(t, h, v, k, ev)
      PROVE  CountsComplete'
  BY <1>4 DEF GrowCopy, Caller, history, thread, CountsComplete, Expired
<1>18. ASSUME NEW t \in Threads, GrowDelete(t)
       PROVE  CountsComplete'
  BY <1>1, <1>18 DEF GrowDelete, history, thread, Expired
<1>5. ASSUME NEW t \in Threads, GrowInstall(t)
      PROVE  CountsComplete'
  <2> DEFINE s == mnElementCount + GrowBy - 1
             e == [argument |-> creating.handler, timerVal |-> creating.val,
                   originalTimerVal |-> creating.val, running |-> TRUE,
                   eventInfo |-> creating.event]
  <2>1. s \in Slots /\ e \in Entry /\ e.timerVal = e.originalTimerVal
    BY <1>5, GrowInstallFacts, StartedEntry DEF GrowInProgress
  <2>2. /\ pc # "dead" /\ UNCHANGED <<pc, index>>
        /\ newTimerList # NULL /\ newTimerList' = NULL
        /\ newTimerList \in [Slots -> Entry]
        /\ mTimers' = [newTimerList EXCEPT ![s] = e]
        /\ age' = [age EXCEPT ![s] = 0] /\ raced' = raced \ {s}
    BY <1>5, GrowInstallFacts DEF GrowInstall, Grown, GrowInProgress, Occupy, thread
  <2>. QED
    BY <2>1, <2>2, RestartedSlot
<1>6. ASSUME NEW t \in Threads, NEW i \in Slots, KillTimer(t, i)
      PROVE  CountsComplete'
  <2>1. FreeEntry.timerVal = FreeEntry.originalTimerVal
    BY DEF FreeEntry
  <2>2. /\ pc # "dead" /\ UNCHANGED <<pc, index>> /\ newTimerList' = NULL
        /\ mTimers \in [Slots -> Entry]
    BY <1>2, <1>6 DEF KillTimer, Caller, thread, TypeOK
  <2>. QED
    BY <1>6, <2>1, <2>2, FreeEntryIsEntry, RestartedSlot DEF KillTimer
<1>7. ASSUME NEW t \in Threads, NEW i \in Slots, NEW e \in Entry, Update(t, i, e),
             e.timerVal = e.originalTimerVal, Restarted(i)
      PROVE  CountsComplete'
  <2>1. /\ pc # "dead" /\ UNCHANGED <<pc, index>> /\ newTimerList' = NULL
        /\ mTimers \in [Slots -> Entry]
        /\ mTimers' = [mTimers EXCEPT ![i] = e]
    BY <1>2, <1>7 DEF Update, Caller, thread, TypeOK
  <2>2. age' = [age EXCEPT ![i] = 0] /\ raced' = raced \ {i}
    BY <1>7 DEF Restarted
  <2>. QED
    BY <1>7, <2>1, <2>2, RestartedSlot
<1>8. ASSUME NEW t \in Threads, NEW i \in Slots, Reset(t, i)
      PROVE  CountsComplete'
  <2>1. mTimers[i] \in Entry
    BY DEF TypeOK
  <2>2. LET e == [mTimers[i] EXCEPT !.timerVal = mTimers[i].originalTimerVal, !.running = TRUE]
        IN  e \in Entry /\ e.timerVal = e.originalTimerVal
    BY <2>1, EntryFields, EntryChanged DEF Entry
  <2>. QED
    BY <1>7, <1>8, <2>2 DEF Reset
<1>9. ASSUME NEW t \in Threads, NEW i \in Slots, NEW v \in Periods, ChangeTimeout(t, i, v)
      PROVE  CountsComplete'
  <2>1. mTimers[i] \in Entry /\ v \in Nat
    BY TimerAssumption DEF TypeOK
  <2>2. LET e == [mTimers[i] EXCEPT !.timerVal = v, !.originalTimerVal = v]
        IN  e \in Entry /\ e.timerVal = e.originalTimerVal
    BY <2>1, EntryChanged DEF Entry
  <2>. QED
    BY <1>7, <1>9, <2>2 DEF ChangeTimeout
<1>10. ASSUME NEW t \in Threads, NEW i \in Slots, Pause(t, i) \/ Resume(t, i)
       PROVE  CountsComplete'
  <2>1. /\ pc # "dead" /\ UNCHANGED <<pc, index, age, raced>> /\ newTimerList' = NULL
        /\ \A j \in Slots : /\ mTimers'[j].timerVal = mTimers[j].timerVal
                             /\ mTimers'[j].originalTimerVal = mTimers[j].originalTimerVal
    BY <1>2, <1>10 DEF Pause, Resume, Update, Caller, thread, TypeOK, Entry
  <2>. QED
    BY <2>1 DEF CountsComplete, Expired
<1>11. ASSUME NEW t \in Threads, NEW b, SetPauseAll(t, b)
       PROVE  CountsComplete'
  BY <1>1, <1>11 DEF SetPauseAll, array, history, thread, Expired
<1>12. ASSUME NEW c \in Clients, Destroy(c)
       PROVE  CountsComplete'
  BY <1>12 DEF Destroy, CountsComplete
<1>13. CASE PulseCountDown
  <2> SUFFICES ASSUME NEW i \in Slots, i \notin raced
               PROVE  mTimers'[i].timerVal + age'[i] * Precision >= mTimers'[i].originalTimerVal
    BY <1>13 DEF PulseCountDown, Scanning, Locks, CountsComplete
  <2>1. mTimers[i].timerVal + age[i] * Precision >= mTimers[i].originalTimerVal
    BY <1>13 DEF PulseCountDown, Scanning, CountsComplete, Expired
  <2>2. CASE i # index
    BY <1>13, <2>1, <2>2 DEF PulseCountDown, TypeOK
  <2>3. CASE i = index
    <3>1. /\ mTimers'[i].timerVal = mTimers[i].timerVal - Precision
          /\ mTimers'[i].originalTimerVal = mTimers[i].originalTimerVal
          /\ age'[i] = age[i] + 1
      BY <1>13, <2>3 DEF PulseCountDown, TypeOK, Entry
    <3>2. age[i] \in Nat /\ mTimers[i].timerVal \in Nat /\ mTimers[i].originalTimerVal \in Nat
      BY EntryFields DEF TypeOK
    <3>3. age[i] * Precision \in Nat
      BY <3>2, TimerAssumption
    <3>. QED
      BY <2>1, <3>1, <3>2, <3>3, TickCounted, TimerAssumption
  <2>. QED
    BY <2>2, <2>3
<1>14. CASE PulseRing
  <2>1. /\ UNCHANGED <<mTimers, newTimerList, raced>> /\ pc = "scan" /\ pc' = "ring"
        /\ index' = index /\ newTimerList = NULL
        /\ \A i \in Slots : i # index => age'[i] = age[i]
    BY <1>14 DEF PulseRing, Scanning, Locks, array, TypeOK
  <2>. QED
    BY <2>1 DEF CountsComplete, Expired
<1>15. CASE PulseReloadStore
  <2>1. /\ pc = "store" /\ pc' = "relock" /\ index' = index /\ age' = age
        /\ newTimerList' = newTimerList /\ index \in Slots
        /\ reload \in Nat
    BY <1>15 DEF PulseReloadStore, Goto, Locks, TypeOK, Slots
  <2> SUFFICES ASSUME NEW i \in Slots, i \notin raced'
               PROVE  /\ mTimers'[i].timerVal + age'[i] * Precision >= mTimers'[i].originalTimerVal
                      /\ newTimerList # NULL => newTimerList[i] = mTimers'[i]
    BY <2>1 DEF CountsComplete
  <2>2. CASE i # index
    <3>1. i \notin raced /\ mTimers'[i] = mTimers[i]
      BY <1>15, <2>2 DEF PulseReloadStore, TypeOK
    <3>. QED
      BY <2>1, <2>2, <3>1 DEF CountsComplete, Expired
  <2>3. CASE i = index
    <3>1. /\ newTimerList = NULL
          /\ mTimers[i].originalTimerVal = reload
          /\ mTimers' = [mTimers EXCEPT ![index].timerVal = reload]
      BY <1>15, <2>3 DEF PulseReloadStore
    <3>2. /\ mTimers'[i].timerVal = reload
          /\ mTimers'[i].originalTimerVal = reload
      BY <2>3, <3>1 DEF TypeOK, Entry
    <3>3. age[i] * Precision \in Nat
      BY TimerAssumption DEF TypeOK
    <3>. QED
      BY <2>1, <3>1, <3>2, <3>3
  <2>. QED
    BY <2>2, <2>3
<1>16. CASE \/ PulseStart \/ PulseSkip \/ PulseLockPause \/ PulseGate \/ PulseReadEvent
            \/ PulseCall \/ PulseSuppress \/ UNCHANGED vars
  <2>1. UNCHANGED <<mTimers, newTimerList, age, raced>>
    BY <1>16 DEF PulseStart, PulseSkip, PulseLockPause, PulseGate, PulseReadEvent,
         PulseCall, PulseSuppress, vars, array, history
  <2>2. pc' # "dead" => pc # "dead" /\ \A i \in Slots : Expired(i) => Expired(i)'
    BY <1>16 DEF PulseStart, PulseSkip, PulseLockPause, PulseGate, PulseReadEvent,
         PulseCall, PulseSuppress, vars, thread, Goto, Scanning, Expired
  <2>. QED
    BY <1>1, <2>1, <2>2
<1>19. CASE \/ CallbackReturns \/ PulseUnlockPause \/ PulseReload \/ PulseReloadLoad
            \/ PulseRelock \/ PulseEnd
  <2>1. UNCHANGED <<mTimers, newTimerList, age, raced>>
    BY <1>19 DEF CallbackReturns, PulseUnlockPause, PulseReload, PulseReloadLoad,
         PulseRelock, PulseEnd, array, history
  <2>2. pc' # "dead" => pc # "dead" /\ \A i \in Slots : Expired(i) => Expired(i)'
    BY <1>19 DEF CallbackReturns, PulseUnlockPause, PulseReload, PulseReloadLoad,
         PulseRelock, PulseEnd, Goto, Expired
  <2>. QED
    BY <1>1, <2>1, <2>2
<1>17. CASE Calls
  <2>1. CASE \E t \in Threads, h \in Handlers, v \in Periods, k \in Timers :
               \E ev \in {NULL, k} : CreateTimer(t, h, v, k, ev) \/ GrowCopy(t, h, v, k, ev)
    BY <2>1, <1>3, <1>4
  <2>2. CASE \E t \in Threads, i \in Slots :
               KillTimer(t, i) \/ Reset(t, i) \/ Pause(t, i) \/ Resume(t, i)
    BY <2>2, <1>6, <1>8, <1>10
  <2>3. CASE \E t \in Threads, i \in Slots, v \in Periods : ChangeTimeout(t, i, v)
    BY <2>3, <1>9
  <2>4. CASE \E t \in Threads : PauseAll(t) \/ UnPauseAll(t)
    BY <2>4, <1>11 DEF PauseAll, UnPauseAll
  <2>. QED
    BY <1>17, <1>5, <1>12, <1>18, <2>1, <2>2, <2>3, <2>4 DEF Calls
<1>. QED
  BY <1>13, <1>14, <1>15, <1>16, <1>17, <1>19 DEF Next, Pulse

-----------------------------------------------------------------------------
\* The invariant.

\* The inductive invariant holds when the constructor returns.
LEMMA InitIInv == Init => IInv
<1> SUFFICES ASSUME Init PROVE IInv
  OBVIOUS
<1>1. TypeOK
  BY InitTypeOK
<1>2. Locks /\ GrowInProgress /\ ExpiryTracked /\ ForeignEventOnlyAfterKill /\ PauseAllQuiesces
  BY TimerAssumption
  DEF Init, Locks, GrowInProgress, ExpiryTracked, ForeignEventOnlyAfterKill, PauseAllQuiesces
<1>3. LiveTimersKeepTheirSlot /\ FreeSlotsHoldNoEvent
  BY DEF Init, LiveTimersKeepTheirSlot, FreeSlotsHoldNoEvent, FreeEntry
<1>4. LateCallsSpent
  BY DEF Init, LateCallsSpent
<1>5. CountsComplete
  BY TimerAssumption DEF Init, CountsComplete, FreeEntry
<1>. QED
  BY <1>1, <1>2, <1>3, <1>4, <1>5 DEF IInv

\* The inductive invariant is kept by every step.
LEMMA NextIInv == IInv /\ [Next]_vars => IInv'
<1> SUFFICES ASSUME IInv, [Next]_vars PROVE IInv'
  OBVIOUS
<1>1. /\ TypeOK /\ Locks /\ GrowInProgress /\ LiveTimersKeepTheirSlot
      /\ FreeSlotsHoldNoEvent /\ ExpiryTracked /\ ForeignEventOnlyAfterKill
      /\ LateCallsSpent /\ PauseAllQuiesces /\ CountsComplete
  BY DEF IInv
<1>2. TypeOK'
  <2>1. CASE UNCHANGED vars
    BY <1>1, <2>1 DEF TypeOK, vars, array, history, thread
  <2>. QED
    BY <1>1, <2>1, CallsTypeOK, PulseTypeOK DEF Next
<1>3. Locks'
  BY <1>1, <1>2, LocksStep
<1>4. GrowInProgress'
  BY <1>1, <1>2, GrowStep
<1>5. LiveTimersKeepTheirSlot' /\ FreeSlotsHoldNoEvent'
  BY <1>1, <1>2, SlotsStep
<1>6. ExpiryTracked'
  BY <1>1, ExpiryStep
<1>7. ForeignEventOnlyAfterKill'
  BY <1>1, ForeignStep
<1>8. LateCallsSpent'
  BY <1>1, LateStep
<1>9. PauseAllQuiesces'
  BY <1>1, PauseAllStep
<1>10. CountsComplete'
  BY <1>1, <1>2, CountsStep
<1>. QED
  BY <1>2, <1>3, <1>4, <1>5, <1>6, <1>7, <1>8, <1>9, <1>10 DEF IInv

\* The conjunction of the parts below holds in every reachable state of the
\* timer manager.
THEOREM Invariance == Spec => []IInv
BY InitIInv, NextIInv, PTL DEF Spec

\* Every variable keeps its type: in particular no count of a timer, which
\* Pulse decrements without a test of its own, passes below zero.
THEOREM TypeCorrect == Spec => []TypeOK
<1>1. IInv => TypeOK
  BY DEF IInv
<1>. QED
  BY <1>1, Invariance, PTL

\* PauseAll, once it has returned to a client, has stopped the callbacks.
THEOREM PauseAllSafe == Spec => []PauseAllQuiesces
<1>1. IInv => PauseAllQuiesces
  BY DEF IInv
<1>. QED
  BY <1>1, Invariance, PTL

\* CreateTimer, KillTimer and Grow never lose, duplicate or mix up timers.
THEOREM SlotsSafe == Spec => []LiveTimersKeepTheirSlot
<1>1. IInv => LiveTimersKeepTheirSlot
  BY DEF IInv
<1>. QED
  BY <1>1, Invariance, PTL

\* A live timer's callback never receives another timer's event or a released
\* one, unless the event was read from an array that Grow had deleted.
THEOREM EventsSafe == Spec => []ForeignEventOnlyAfterKill
<1>1. IInv => ForeignEventOnlyAfterKill
  BY DEF IInv
<1>. QED
  BY <1>1, Invariance, PTL

\* KillTimer lets through one callback at most.
THEOREM LateCallsBounded == Spec => []AtMostOneLateCall
<1>1. IInv => AtMostOneLateCall
  BY DEF IInv, LateCallsSpent, AtMostOneLateCall
<1>. QED
  BY <1>1, Invariance, PTL

\* No timer rings before its period, but for the reloads that raced.
THEOREM TimersNotEarly == Spec => NeverEarly
<1>1. IInv /\ [Next]_vars =>
        [pc = "scan" /\ pc' = "ring" /\ index \notin raced
           => (age[index] + 1) * Precision >= mTimers[index].originalTimerVal]_vars
  <2> SUFFICES ASSUME IInv, Next, pc = "scan", pc' = "ring", index \notin raced
               PROVE  (age[index] + 1) * Precision >= mTimers[index].originalTimerVal
    OBVIOUS
  <2>1. LiveTimersKeepTheirSlot /\ CountsComplete /\ TypeOK /\ Locks /\ GrowInProgress
    BY DEF IInv
  <2>2. PulseRing
    <3>1. CASE Calls
      BY <2>1, <3>1, CallsLife
    <3>2. CASE Pulse
      <4>1. CASE PulseReadEvent \/ PulseCall
        BY <4>1 DEF PulseReadEvent, PulseCall, Goto
      <4>. QED
        BY <3>2, <4>1, PulseExpiry
    <3>. QED
      BY <3>1, <3>2 DEF Next
  <2>3. index \in Slots /\ mTimers[index].timerVal <= Precision
    BY <2>1, <2>2 DEF PulseRing, Scanning, TypeOK, Slots
  <2>4. mTimers[index].timerVal + age[index] * Precision >= mTimers[index].originalTimerVal
    BY <2>1, <2>3 DEF CountsComplete, Expired
  <2>5. /\ age[index] \in Nat /\ mTimers[index].timerVal \in Nat
        /\ mTimers[index].originalTimerVal \in Nat
    BY <2>1, <2>3, EntryFields DEF TypeOK
  <2>6. age[index] * Precision \in Nat
    BY <2>5, TimerAssumption
  <2>. QED
    BY <2>3, <2>4, <2>5, <2>6, TickCounted, TimerAssumption
<1>. QED
  BY <1>1, Invariance, PTL DEF Spec, NeverEarly

-----------------------------------------------------------------------------
\* The refinement of TimerService.

\* The initial states of the timer manager are those of the service.
LEMMA ServiceInit == Init => Service!Init
BY DEF Init, Service!Init, Phase

\* An operation starts or cancels one timer of the abstract service, suspends or
\* resumes it, shuts it down, or is not visible.
LEMMA ServiceCalls ==
  ASSUME TypeOK, Locks, GrowInProgress, LiveTimersKeepTheirSlot, Calls
  PROVE  [Service!Next]_Service!vars
<1>1. ASSUME NEW k \in Timers, life[k] = "unborn", life' = [life EXCEPT ![k] = "live"],
             UNCHANGED <<thread, mPauseAll>>
      PROVE  Service!Next
  <2>1. Service!Start(k)
    BY <1>1 DEF Service!Start, Phase, thread
  <2>. QED
    BY <2>1 DEF Service!Next
<1>2. ASSUME UNCHANGED <<life, thread, mPauseAll>>
      PROVE  UNCHANGED Service!vars
  BY <1>2 DEF Service!vars, Phase, thread
<1>3. ASSUME NEW t \in Threads, NEW h \in Handlers, NEW v \in Periods,
             NEW k \in Timers, NEW ev \in {NULL, k}, CreateTimer(t, h, v, k, ev)
      PROVE  Service!Next
  BY <1>1, <1>3 DEF CreateTimer, Occupy
<1>4. ASSUME NEW t \in Threads, NEW h \in Handlers, NEW v \in Periods,
             NEW k \in Timers, NEW ev \in {NULL, k}, GrowCopy(t, h, v, k, ev)
      PROVE  UNCHANGED Service!vars
  BY <1>2, <1>4 DEF GrowCopy, history
<1>14. ASSUME NEW t \in Threads, GrowDelete(t)
       PROVE  UNCHANGED Service!vars
  BY <1>2, <1>14 DEF GrowDelete, history
<1>5. ASSUME NEW t \in Threads, GrowInstall(t)
      PROVE  Service!Next
  BY <1>1, <1>5, GrowInstallFacts DEF GrowInstall, Grown, GrowInProgress, Occupy
<1>6. ASSUME NEW t \in Threads, NEW i \in Slots, KillTimer(t, i)
      PROVE  Service!Next
  <2>1. Service!Cancel(tid[i]) /\ tid[i] \in Timers
    BY <1>6, KillTimerFacts DEF Service!Cancel, KillTimer, Phase, thread
  <2>. QED
    BY <2>1 DEF Service!Next
<1>7. ASSUME NEW t \in Threads, NEW i \in Slots, NEW v,
             Reset(t, i) \/ Pause(t, i) \/ Resume(t, i) \/ ChangeTimeout(t, i, v)
      PROVE  UNCHANGED Service!vars
  BY <1>2, <1>7 DEF Reset, Pause, Resume, ChangeTimeout, Update
<1>8. ASSUME NEW t \in Threads, NEW b \in BOOLEAN, SetPauseAll(t, b)
      PROVE  Service!Next
  <2>1. Service!SetSuspended
    BY <1>8 DEF SetPauseAll, Service!SetSuspended, Phase, history, thread
  <2>. QED
    BY <2>1 DEF Service!Next
<1>9. ASSUME NEW c \in Clients, Destroy(c)
      PROVE  Service!Next
  <2>1. Service!Shutdown
    BY <1>9 DEF Destroy, Service!Shutdown, Phase, history
  <2>. QED
    BY <2>1 DEF Service!Next
<1>10. CASE \E t \in Threads, h \in Handlers, v \in Periods, k \in Timers :
               \E ev \in {NULL, k} : CreateTimer(t, h, v, k, ev) \/ GrowCopy(t, h, v, k, ev)
  BY <1>3, <1>4, <1>10
<1>11. CASE \E t \in Threads, i \in Slots :
               KillTimer(t, i) \/ Reset(t, i) \/ Pause(t, i) \/ Resume(t, i)
  BY <1>6, <1>7, <1>11
<1>12. CASE \E t \in Threads, i \in Slots, v \in Periods : ChangeTimeout(t, i, v)
  BY <1>7, <1>12
<1>13. CASE \E t \in Threads : PauseAll(t) \/ UnPauseAll(t)
  BY <1>8, <1>13 DEF PauseAll, UnPauseAll
<1>. QED
  BY <1>5, <1>9, <1>10, <1>11, <1>12, <1>13, <1>14 DEF Calls

\* A step of the pulse thread detects, delivers, drops or settles one expiry, or
\* is not visible.
LEMMA ServicePulse ==
  ASSUME TypeOK, Locks, LiveTimersKeepTheirSlot, PauseAllQuiesces, Pulse
  PROVE  [Service!Next]_Service!vars
<1>1. CASE PulseRing
  <2>1. /\ tid[index] \in Timers /\ life[tid[index]] = "live"
    <3>1. index \in Slots /\ pc # "dead" /\ mTimers[index].argument # NULL
      BY <1>1 DEF PulseRing, Scanning, Armed, IsValid, TypeOK, Slots
    <3>2. tid[index] # NULL /\ tid[index] \in Timers \cup {NULL}
      BY <3>1 DEF TypeOK, LiveTimersKeepTheirSlot
    <3>. QED
      BY <3>1, <3>2 DEF LiveTimersKeepTheirSlot
  <2>2. Service!Expire(tid[index])
    BY <1>1, <2>1 DEF PulseRing, Scanning, Service!Expire, Phase
  <2>. QED
    BY <2>1, <2>2 DEF Service!Next
<1>2. CASE PulseCall
  <2>1. Service!Deliver
    BY <1>2 DEF PulseCall, Goto, Service!Deliver, Phase, PauseAllQuiesces, history
  <2>. QED
    BY <2>1 DEF Service!Next
<1>3. CASE PulseSuppress \/ CallbackReturns
  <2>1. Service!Finish
    BY <1>3 DEF PulseSuppress, CallbackReturns, Goto, Service!Finish, Phase, history
  <2>. QED
    BY <2>1 DEF Service!Next
<1>4. CASE PulseRelock
  <2>1. Service!Settle
    BY <1>4 DEF PulseRelock, Goto, Service!Settle, Phase, history
  <2>. QED
    BY <2>1 DEF Service!Next
<1>5. CASE PulseStart \/ PulseSkip \/ PulseCountDown \/ PulseEnd
  BY <1>5 DEF PulseStart, PulseSkip, PulseCountDown, PulseEnd, Goto, Scanning,
              Service!vars, Phase, history
<1>6. CASE PulseLockPause \/ PulseGate \/ PulseReadEvent \/ PulseUnlockPause
  BY <1>6 DEF PulseLockPause, PulseGate, PulseReadEvent, PulseUnlockPause, Goto,
              Service!vars, Phase, history
<1>7. CASE PulseReload \/ PulseReloadLoad \/ PulseReloadStore
  BY <1>7 DEF PulseReload, PulseReloadLoad, PulseReloadStore, Goto,
              Service!vars, Phase, history
<1>. QED
  BY <1>1, <1>2, <1>3, <1>4, <1>5, <1>6, <1>7 DEF Pulse

\* The manager, with its array, its locks and its races, implements the
\* abstract service: every step is a step of TimerService or leaves it as is.
THEOREM Refinement == Spec => ServiceSpec
<1>1. IInv /\ [Next]_vars => [Service!Next]_Service!vars
  <2>1. CASE UNCHANGED vars
    BY <2>1 DEF vars, Service!vars, Phase, thread, history
  <2>. QED
    BY <2>1, ServiceCalls, ServicePulse DEF IInv, Next
<1>. QED
  BY <1>1, ServiceInit, Invariance, PTL DEF Spec, ServiceSpec, Service!Spec
=============================================================================
