---------------------------- MODULE PartsProofs ----------------------------
(***************************************************************************)
(* What Parts promises of the clock, the threads, the tickets, the         *)
(* monitor, the containers and the counted pointers, for all values of     *)
(* their constants.  A behaviour of Parts takes the steps of each part or  *)
(* leaves it alone; what is inductive for a part therefore holds in Parts. *)
(***************************************************************************)
EXTENDS Parts, FiniteSetTheorems, SequenceTheorems, WellFoundedInduction, TLAPS

-----------------------------------------------------------------------------
\* The parts.

\* A step is one of the clock, or leaves it alone.
LEMMA ClockSteps == [PartsNext]_allVars => [Next]_vars
<1>1. PartsNext => Next \/ UNCHANGED vars
  BY DEF PartsNext, Only
<1>2. UNCHANGED allVars => UNCHANGED vars
  BY DEF allVars
<1> QED
  BY <1>1, <1>2

\* A step is one of the thread, or leaves it alone.
LEMMA ThreadSteps == [PartsNext]_allVars => [Thread!Next]_(Thread!vars)
<1>1. PartsNext => Thread!Next \/ UNCHANGED threadVars
  BY DEF PartsNext, Only
<1>2. UNCHANGED allVars => UNCHANGED threadVars
  BY DEF allVars
<1>3. UNCHANGED threadVars => UNCHANGED Thread!vars
  BY DEF threadVars, Thread!vars, Thread!self, Thread!join
<1> QED
  BY <1>1, <1>2, <1>3

\* A step is one of the tickets, or leaves them alone.
LEMMA TicketSteps == [PartsNext]_allVars => [Ticket!Next]_(Ticket!vars)
<1>1. PartsNext => Ticket!Next \/ UNCHANGED ticketVars
  BY DEF PartsNext, Only
<1>2. UNCHANGED allVars => UNCHANGED ticketVars
  BY DEF allVars
<1>3. UNCHANGED ticketVars => UNCHANGED Ticket!vars
  BY DEF ticketVars, Ticket!vars, Ticket!heap, Ticket!counting, Ticket!history
<1> QED
  BY <1>1, <1>2, <1>3

\* A step is one of the monitor, or leaves it alone.
LEMMA MonitorSteps == [PartsNext]_allVars => [Monitor!Next]_(Monitor!vars)
<1>1. PartsNext => Monitor!Next \/ UNCHANGED monitorVars
  BY DEF PartsNext, Only
<1>2. UNCHANGED allVars => UNCHANGED monitorVars
  BY DEF allVars
<1>3. UNCHANGED monitorVars => UNCHANGED Monitor!vars
  BY DEF monitorVars, Monitor!vars, Monitor!control
<1> QED
  BY <1>1, <1>2, <1>3

\* A step is one of the map, or leaves it alone.
LEMMA MapSteps == [PartsNext]_allVars => [Map!Next]_(Map!vars)
<1>1. PartsNext => Map!Next \/ UNCHANGED mapVars
  BY DEF PartsNext, Only
<1>2. UNCHANGED allVars => UNCHANGED mapVars
  BY DEF allVars
<1>3. UNCHANGED mapVars => UNCHANGED Map!vars
  BY DEF mapVars, Map!vars, Map!walk
<1> QED
  BY <1>1, <1>2, <1>3

\* A step is one of the list, or leaves it alone.
LEMMA ListSteps == [PartsNext]_allVars => [List!Next]_(List!vars)
<1>1. PartsNext => List!Next \/ UNCHANGED listVars
  BY DEF PartsNext, Only
<1>2. UNCHANGED allVars => UNCHANGED listVars
  BY DEF allVars
<1>3. UNCHANGED listVars => UNCHANGED List!vars
  BY DEF listVars, List!vars, List!walk
<1> QED
  BY <1>1, <1>2, <1>3

\* A step is one of the pointers, or leaves them alone.
LEMMA PointerSteps == [PartsNext]_allVars => [Pointer!Next]_(Pointer!vars)
<1>1. PartsNext => Pointer!Next \/ UNCHANGED pointerVars
  BY DEF PartsNext, Only
<1>2. UNCHANGED allVars => UNCHANGED pointerVars
  BY DEF allVars
<1>3. UNCHANGED pointerVars => UNCHANGED Pointer!vars
  BY DEF pointerVars, Pointer!vars
<1> QED
  BY <1>1, <1>2, <1>3

-----------------------------------------------------------------------------
\* The clock.

\* How often the clock has wrapped at time x.
Wraps(x) == x \div 2^Width

\* A time is what the code sees of it and the wraps before it.
LEMMA DWORDIs ==
  ASSUME NEW x \in Int
  PROVE  /\ 2^Width \in Nat \ {0}
         /\ DWORD(x) \in 0 .. 2^Width - 1 /\ Wraps(x) \in Int
         /\ x = 2^Width * Wraps(x) + DWORD(x)
<1>1. 2^Width \in Nat \ {0}
  <2>1. 2^Width \in Int
    BY ClockAssumption
  <2> QED
    BY <2>1, ClockAssumption
<1> DEFINE K == 2^Width
<1>2. K \in Nat \ {0}
  BY <1>1
<1> HIDE DEF K
<1>3. x % K \in 0 .. K - 1 /\ x \div K \in Int /\ x = K * (x \div K) + (x % K)
  BY <1>2
<1> QED
  BY <1>1, <1>3 DEF K, DWORD, Wraps

\* Of two times the later one has no fewer wraps.  If both have as many, the
\* code sees their distance; if not, and they are less than a round apart, it
\* sees the later one as the smaller number.
LEMMA DWORDCompares ==
  ASSUME NEW x \in Int, NEW y \in Int, x <= y
  PROVE  /\ Wraps(x) <= Wraps(y)
         /\ Wraps(x) = Wraps(y) => DWORD(y) - DWORD(x) = y - x
         /\ Wraps(x) < Wraps(y) /\ y - x < 2^Width => DWORD(y) < DWORD(x)
<1> DEFINE K == 2^Width
<1>1. /\ K \in Nat \ {0}
      /\ DWORD(x) \in 0 .. K - 1 /\ Wraps(x) \in Int /\ x = K * Wraps(x) + DWORD(x)
      /\ DWORD(y) \in 0 .. K - 1 /\ Wraps(y) \in Int /\ y = K * Wraps(y) + DWORD(y)
  BY DWORDIs
<1> HIDE DEF K
<1>2. \A a, b \in Int : a < b => K * a + K <= K * b
  <2> SUFFICES ASSUME NEW a \in Int, NEW b \in Int, a < b PROVE K * a + K <= K * b
    OBVIOUS
  <2>1. a + 1 <= b
    OBVIOUS
  <2>2. K * (a + 1) <= K * b
    BY <1>1, <2>1
  <2> QED
    BY <1>1, <2>2
<1>3. Wraps(x) <= Wraps(y)
  <2> SUFFICES ASSUME Wraps(y) < Wraps(x) PROVE FALSE
    BY <1>1
  <2>1. K * Wraps(y) + K <= K * Wraps(x)
    BY <1>1, <1>2
  <2>2. K * Wraps(y) \in Int /\ K * Wraps(x) \in Int
    BY <1>1
  <2> QED
    BY <1>1, <2>1, <2>2
<1>4. ASSUME Wraps(x) = Wraps(y) PROVE DWORD(y) - DWORD(x) = y - x
  <2>1. K * Wraps(x) \in Int
    BY <1>1
  <2> QED
    BY <1>1, <1>4, <2>1
<1>5. ASSUME Wraps(x) < Wraps(y), y - x < K PROVE DWORD(y) < DWORD(x)
  <2>1. K * Wraps(x) + K <= K * Wraps(y)
    BY <1>1, <1>2, <1>5
  <2>2. K * Wraps(x) \in Int /\ K * Wraps(y) \in Int
    BY <1>1
  <2> QED
    BY <1>1, <1>5, <2>1, <2>2
<1> QED
  BY <1>3, <1>4, <1>5 DEF K

\* The clock's inductive invariant: at the top of the loop the last wrap was served;
\* in the inner loop a deadline to come is not behind a wrap, unless bOverflow says so.
ClockIInv ==
  /\ NeverPulsesEarly
  /\ pc \in {"top", "pulse"} => ~bOverflow
  /\ pc = "wait" /\ ~bOverflow /\ now < ticker => Wraps(now) = Wraps(ticker)

\* A deadline that has come is less than a period ahead, and is not to come.
LEMMA DeadlineCame ==
  \A n, t \in Nat : n >= t => t <= n + Precision /\ ~(n < t)
BY ClockAssumption

\* It holds at first.
LEMMA ClockInit == Init => ClockIInv
<1> SUFFICES ASSUME Init PROVE ClockIInv
  OBVIOUS
<1>1. 2^Width \in Nat \ {0} /\ Precision \in Nat
  BY DWORDIs, ClockAssumption
<1>2. now \in Nat /\ ticker \in Nat /\ ticker = now + Precision /\ 0 \in 0 .. 2^Width - 1
  BY <1>1 DEF Init
<1>3. bOverflow = FALSE /\ nSleepTime = 0 /\ pc = "top"
  BY DEF Init
<1>4. TypeOK
  BY <1>2, <1>3 DEF TypeOK
<1>5. NeverPulsesEarly
  BY <1>2, <1>3, <1>4 DEF NeverPulsesEarly
<1> QED
  BY <1>3, <1>5 DEF ClockIInv

\* What a Sleep of ms does to the clock.
LEMMA SleepIs ==
  ASSUME TypeOK, NEW ms \in Nat, Sleep(ms)
  PROVE  now' \in Nat /\ now' >= now + ms /\ nSleepTime' = ms
BY ClockAssumption DEF Sleep, TypeOK

\* The wrap is noticed when the deadline is beyond it.
LEMMA DetectOverflowKeeps ==
  ASSUME ClockIInv, DetectOverflow
  PROVE  ClockIInv'
<1>1. /\ pc = "top" /\ pc' = "wait" /\ UNCHANGED <<now, ticker, nSleepTime>>
      /\ bOverflow' = (DWORD(ticker - Precision) > DWORD(ticker))
  BY DEF DetectOverflow, ClockIInv
<1>2. now \in Nat /\ ticker \in Nat /\ ticker <= now + Precision /\ Precision \in Nat
      /\ Precision < 2^Width /\ 2^Width \in Nat
  BY ClockAssumption, DWORDIs DEF ClockIInv, NeverPulsesEarly, TypeOK
<1>3. ASSUME ~bOverflow', now < ticker PROVE Wraps(now) = Wraps(ticker)
  <2>1. Wraps(ticker - Precision) = Wraps(ticker)
    <3>1. /\ ticker - Precision \in Int /\ ticker - Precision <= ticker
          /\ ticker - (ticker - Precision) < 2^Width
      BY <1>2
    <3>2. /\ Wraps(ticker - Precision) \in Int /\ Wraps(ticker) \in Int
          /\ DWORD(ticker - Precision) \in Int /\ DWORD(ticker) \in Int
      <4>1. \A x \in Int : Wraps(x) \in Int /\ DWORD(x) \in Int
        BY DWORDIs
      <4> QED
        BY <1>2, <3>1, <4>1
    <3>3. /\ Wraps(ticker - Precision) <= Wraps(ticker)
          /\ Wraps(ticker - Precision) < Wraps(ticker) =>
               DWORD(ticker) < DWORD(ticker - Precision)
      BY <1>2, <3>1, DWORDCompares
    <3>4. ~(DWORD(ticker - Precision) > DWORD(ticker))
      BY <1>1, <1>3
    <3> QED
      BY <3>2, <3>3, <3>4
  <2>2. Wraps(ticker - Precision) <= Wraps(now) /\ Wraps(now) <= Wraps(ticker)
    <3>1. ticker - Precision \in Int /\ ticker - Precision <= now
      BY <1>2
    <3> QED
      BY <1>2, <1>3, <3>1, DWORDCompares
  <2>3. Wraps(now) \in Int /\ Wraps(ticker) \in Int
    <3>1. \A x \in Int : Wraps(x) \in Int
      BY DWORDIs
    <3> QED
      BY <1>2, <3>1
  <2> QED
    BY <2>1, <2>2, <2>3
<1>4. NeverPulsesEarly'
  BY <1>1 DEF ClockIInv, NeverPulsesEarly, TypeOK
<1>5. (Wraps(now))' = Wraps(now) /\ (Wraps(ticker))' = Wraps(ticker)
  BY <1>1 DEF Wraps
<1>6. now >= ticker - Precision
  BY <1>2
<1> QED
  BY <1>1, <1>3, <1>4, <1>5, <1>6 DEF ClockIInv

\* A sleep is at most a period, but for a clock that wrapped with the deadline
\* unserved; after a whole one the deadline has come.
LEMMA WaitForTickKeeps ==
  ASSUME ClockIInv, WaitForTick
  PROVE  /\ ClockIInv'
         /\ nSleepTime' > Precision =>
              ticker < now /\ ticker \div 2^Width < now \div 2^Width
<1>1. /\ pc = "wait" /\ pc' = "wait" /\ bOverflow' = FALSE /\ ticker' = ticker
      /\ bOverflow \/ DWORD(ticker) > DWORD(now)
  BY DEF WaitForTick
<1>2. /\ now \in Nat /\ ticker \in Nat /\ ticker <= now + Precision
      /\ Precision \in Nat \ {0} /\ 2^Width \in Nat /\ Precision < 2^Width
      /\ DWORD(ticker) \in 0 .. 2^Width - 1 /\ DWORD(now) \in 0 .. 2^Width - 1
      /\ Wraps(ticker) \in Int /\ Wraps(now) \in Int
  BY ClockAssumption, DWORDIs DEF ClockIInv, NeverPulsesEarly, TypeOK
<1>3. CASE bOverflow
  <2>1. Sleep(Precision) /\ ticker <= now + Precision
    BY <1>2, <1>3 DEF WaitForTick
  <2>2. now' \in Nat /\ now' >= ticker /\ nSleepTime' = Precision
    BY <1>2, <2>1, SleepIs DEF ClockIInv, NeverPulsesEarly
  <2>3. /\ nSleepTime' \in 0 .. 2^Width - 1 /\ ~(nSleepTime' > Precision)
        /\ ticker <= now' + Precision /\ ~(now' < ticker)
    <3>1. Precision \in 0 .. 2^Width - 1
      BY <1>2
    <3>2. nSleepTime' \in 0 .. 2^Width - 1
      BY <2>2, <3>1, Zenon
    <3>3. ~(nSleepTime' > Precision)
      BY <1>2, <2>2
    <3>4. ticker <= now' + Precision /\ ~(now' < ticker)
      BY <1>2, <2>2, DeadlineCame
    <3> QED
      BY <3>2, <3>3, <3>4, Zenon
  <2>4. TypeOK'
    BY <1>1, <1>2, <2>2, <2>3 DEF TypeOK
  <2> QED
    BY <1>1, <2>3, <2>4 DEF ClockIInv, NeverPulsesEarly
<1>4. CASE ~bOverflow
  <2> DEFINE ms == DWORD(ticker) - DWORD(now)
  <2>1. ms \in 1 .. 2^Width - 1 /\ Sleep(ms)
    BY <1>1, <1>2, <1>4 DEF WaitForTick
  <2> HIDE DEF ms
  <2>2. now' \in Nat /\ now' >= now + ms /\ nSleepTime' = ms
    BY <1>2, <2>1, SleepIs DEF ClockIInv, NeverPulsesEarly
  <2>3. ASSUME now < ticker PROVE ms = ticker - now
    <3>1. Wraps(now) = Wraps(ticker)
      BY <1>1, <1>4, <2>3 DEF ClockIInv
    <3>2. DWORD(ticker) - DWORD(now) = ticker - now
      BY <1>2, <2>3, <3>1, DWORDCompares
    <3> QED
      BY <3>2 DEF ms
  <2>4. ASSUME ticker <= now PROVE ticker < now /\ Wraps(ticker) < Wraps(now)
    <3>1. /\ Wraps(ticker) <= Wraps(now)
          /\ Wraps(ticker) = Wraps(now) => DWORD(now) - DWORD(ticker) = now - ticker
      BY <1>2, <2>4, DWORDCompares
    <3>2. Wraps(ticker) # Wraps(now)
      BY <1>1, <1>2, <1>4, <2>4, <3>1
    <3> QED
      BY <1>2, <2>4, <3>1, <3>2
  <2>5. now' >= ticker
    BY <1>2, <2>1, <2>2, <2>3
  <2>6. nSleepTime' > Precision => ticker < now /\ Wraps(ticker) < Wraps(now)
    BY <1>2, <2>1, <2>2, <2>3, <2>4
  <2>7. /\ nSleepTime' \in 0 .. 2^Width - 1
        /\ ticker <= now' + Precision /\ ~(now' < ticker)
    <3>1. ms \in 0 .. 2^Width - 1
      BY <1>2, <2>1
    <3>2. nSleepTime' \in 0 .. 2^Width - 1
      BY <2>2, <3>1, Zenon
    <3>3. ticker <= now' + Precision /\ ~(now' < ticker)
      BY <1>2, <2>2, <2>5, DeadlineCame
    <3> QED
      BY <3>2, <3>3, Zenon
  <2>8. TypeOK'
    BY <1>1, <1>2, <2>2, <2>7 DEF TypeOK
  <2>9. ClockIInv'
    BY <1>1, <2>7, <2>8 DEF ClockIInv, NeverPulsesEarly
  <2> QED
    BY <2>6, <2>9 DEF Wraps
<1> QED
  BY <1>3, <1>4

\* The inner loop ends when the deadline has come.
LEMMA TickDueKeeps ==
  ASSUME ClockIInv, TickDue
  PROVE  ClockIInv'
<1>1. /\ pc = "wait" /\ pc' = "pulse" /\ ~bOverflow /\ DWORD(ticker) <= DWORD(now)
      /\ UNCHANGED <<now, ticker, bOverflow, nSleepTime>>
  BY DEF TickDue
<1>2. now \in Nat /\ ticker \in Nat /\ DWORD(ticker) \in Int /\ DWORD(now) \in Int
  BY DWORDIs DEF ClockIInv, NeverPulsesEarly, TypeOK
<1>3. ticker <= now
  <2> SUFFICES ASSUME now < ticker PROVE FALSE
    BY <1>2
  <2> QED
    BY <1>1, <1>2, DWORDCompares DEF ClockIInv
<1> QED
  BY <1>1, <1>3 DEF ClockIInv, NeverPulsesEarly, TypeOK

\* The next deadline is at most a period ahead.
LEMMA PulseKeeps ==
  ASSUME ClockIInv, Pulse
  PROVE  ClockIInv'
<1>1. /\ pc = "pulse" /\ pc' = "top" /\ ticker' = ticker + Precision
      /\ now' \in now .. now + MaxDelay /\ UNCHANGED <<bOverflow, nSleepTime>>
  BY DEF Pulse
<1>2. /\ now' \in Nat /\ ticker' \in Nat /\ ticker' <= now' + Precision
      /\ nSleepTime' \in 0 .. 2^Width - 1 /\ bOverflow' \in BOOLEAN
  <2>1. /\ now \in Nat /\ ticker \in Nat /\ ticker <= now
        /\ Precision \in Nat /\ MaxDelay \in Nat
    BY <1>1, ClockAssumption DEF ClockIInv, NeverPulsesEarly, TypeOK
  <2>2. nSleepTime \in 0 .. 2^Width - 1 /\ bOverflow \in BOOLEAN
    BY DEF ClockIInv, NeverPulsesEarly, TypeOK
  <2>3. now' \in Nat /\ ticker' \in Nat /\ ticker' <= now' + Precision
    <3>1. \A x \in now .. now + MaxDelay : x \in Nat /\ now <= x
      BY <2>1
    <3>2. now' \in Nat /\ now <= now'
      BY <1>1, <3>1
    <3>3. \A n \in Nat : now <= n => ticker + Precision <= n + Precision
      BY <2>1
    <3>4. ticker + Precision \in Nat
      BY <2>1
    <3>5. ticker + Precision <= now' + Precision
      BY <3>2, <3>3, Zenon
    <3> QED
      BY <1>1, <3>2, <3>4, <3>5, Zenon
  <2>4. nSleepTime' \in 0 .. 2^Width - 1 /\ bOverflow' \in BOOLEAN
    BY <1>1, <2>2, Zenon
  <2> QED
    BY <2>3, <2>4, Zenon
<1>3. ~bOverflow'
  BY <1>1 DEF ClockIInv
<1>4. TypeOK'
  BY <1>1, <1>2 DEF TypeOK
<1> QED
  BY <1>1, <1>2, <1>3, <1>4 DEF ClockIInv, NeverPulsesEarly

\* The invariant of the clock is inductive, and no step of the clock breaks
\* LongSleepNeedsMissedWrap.
LEMMA ClockKeeps ==
  ASSUME ClockIInv, [Next]_vars
  PROVE  /\ ClockIInv'
         /\ nSleepTime' > Precision /\ nSleepTime' # nSleepTime =>
              ticker < now /\ ticker \div 2^Width < now \div 2^Width
<1>1. CASE DetectOverflow
  BY <1>1, DetectOverflowKeeps DEF DetectOverflow
<1>2. CASE WaitForTick
  BY <1>2, WaitForTickKeeps
<1>3. CASE TickDue
  BY <1>3, TickDueKeeps DEF TickDue
<1>4. CASE Pulse
  BY <1>4, PulseKeeps DEF Pulse
<1>5. CASE UNCHANGED vars
  BY <1>5 DEF vars, ClockIInv, NeverPulsesEarly, TypeOK, Wraps
<1> QED
  BY <1>1, <1>2, <1>3, <1>4, <1>5 DEF Next

\* For every width, period and delay: Pulse is never called before its deadline,
\* whatever wraps, and a sleep longer than a period needs a clock that wrapped with
\* the deadline unserved.
THEOREM ClockPulsesAtDeadlines == PartsSpec => PulsesAtDeadlines
<1>1. PartsInit => ClockIInv
  BY ClockInit DEF PartsInit
<1>2. ClockIInv /\ [Next]_vars => ClockIInv'
  BY ClockKeeps
<1>3. ClockIInv => NeverPulsesEarly
  BY DEF ClockIInv
<1>4. ClockIInv /\ [Next]_vars =>
        [nSleepTime' > Precision /\ nSleepTime' # nSleepTime
           => ticker < now /\ ticker \div 2^Width < now \div 2^Width]_vars
  BY ClockKeeps
<1> QED
  BY <1>1, <1>2, <1>3, <1>4, ClockSteps, PTL
     DEF PartsSpec, PulsesAtDeadlines, LongSleepNeedsMissedWrap

-----------------------------------------------------------------------------
\* A thread, its handles and its joiners.

ThreadStates == {"created", "running", "returned", "ending", "exited"}

Joining == {j \in Joiners : joinerPc[j] # "idle"}

ThreadTypes ==
  /\ object \in {"alive", "deleted"}
  /\ isRunning \in BOOLEAN /\ mSelfDestruct \in BOOLEAN
  /\ threads \in Seq(ThreadStates)
  /\ threadMishaps \subseteq {"orphaned", "forgotten", "rerun"}
  /\ joinerPc \in [Joiners -> {"idle", "wait", "leave"}]
  /\ waitsOn \in [Joiners -> Nat]

\* threadHandle is the last thread's, and so is the entry's.
Handles ==
  /\ closes \in Seq(Nat)
  /\ Len(closes) = Len(threads)
  /\ threadHandle = Len(threads)

Entry(n) == << [handle |-> threadHandle, joinCount |-> n] >>

OneEntry ==
  instances # <<>> => threadHandle # 0 /\ \E n \in Int : instances = Entry(n)

\* The handles of earlier threads are closed, the last one's if it has no entry.
ClosedWithoutEntry ==
  \A h \in Thread!Created :
    closes[h] = IF h = threadHandle /\ instances # <<>> THEN 0 ELSE 1

\* The joins in progress are counted by the entry, and use its handle.
JoinsCounted ==
  /\ \A j \in Joining : instances # <<>> /\ waitsOn[j] = threadHandle
  /\ instances # <<>> => instances = Entry(Cardinality(Joining))

\* The entry of a deleted object is there for a join.
EntryForJoins == object = "deleted" => instances = <<>> \/ Joining # {}

Accounted == ClosedWithoutEntry /\ JoinsCounted /\ EntryForJoins

\* A thread without entry has finished.
NoEntryIsFinished ==
  instances = <<>> /\ threadHandle # 0 =>
    threads[threadHandle] \notin {"created", "running"}

\* The inductive invariant.
ThreadIInv ==
  /\ ThreadTypes /\ Handles /\ OneEntry
  /\ "rerun" \notin threadMishaps => Accounted
  /\ threadMishaps = {} => NoEntryIsFinished

\* A set of joins is finite; one more, or one less, is counted as such.
LEMMA JoiningCounts ==
  ASSUME IsFiniteSet(Joiners)
  PROVE  /\ Cardinality(Joining) \in Nat
         /\ Cardinality(Joining) = 0 <=> Joining = {}
         /\ \A j \in Joiners \ Joining :
              Cardinality(Joining \cup {j}) = Cardinality(Joining) + 1
         /\ \A j \in Joining :
              Cardinality(Joining \ {j}) = Cardinality(Joining) - 1
<1>1. IsFiniteSet(Joining)
  BY FS_Subset DEF Joining
<1> QED
  BY <1>1, FS_CardinalityType, FS_EmptySet, FS_AddElement, FS_RemoveElement

\* A write to a sequence, at an index it may not have, keeps its length and type.
LEMMA SequenceWrite ==
  ASSUME NEW S, NEW s \in Seq(S), NEW i, NEW x \in S
  PROVE  /\ [s EXCEPT ![i] = x] \in Seq(S)
         /\ Len([s EXCEPT ![i] = x]) = Len(s)
         /\ \A k \in DOMAIN s : [s EXCEPT ![i] = x][k] \in {s[k], x}
<1>1. CASE i \in 1 .. Len(s)
  BY <1>1, ExceptSeq
<1>2. CASE i \notin 1 .. Len(s)
  <2>1. [s EXCEPT ![i] = x] = s
    BY <1>2
  <2> QED
    BY <2>1
<1> QED
  BY <1>1, <1>2

\* Closing one handle leaves the others as they are.
LEMMA CloseCounts ==
  ASSUME Handles, NEW h \in DOMAIN closes
  PROVE  /\ Thread!Close(h) \in Seq(Nat) /\ Len(Thread!Close(h)) = Len(closes)
         /\ Thread!Close(h)[h] = closes[h] + 1
         /\ \A g \in DOMAIN closes : g # h => Thread!Close(h)[g] = closes[g]
BY DEF Handles, Thread!Close

\* ThreadIInv holds of an object that was never run.
LEMMA ThreadInitIInv == ASSUME Thread!Init PROVE ThreadIInv
<1>1. ThreadTypes
  <2>1. threads \in Seq(ThreadStates) /\ waitsOn \in [Joiners -> Nat]
    BY DEF Thread!Init
  <2>2. joinerPc \in [Joiners -> {"idle", "wait", "leave"}]
    BY DEF Thread!Init
  <2>3. /\ object \in {"alive", "deleted"}
        /\ isRunning \in BOOLEAN /\ mSelfDestruct \in BOOLEAN
        /\ threadMishaps \subseteq {"orphaned", "forgotten", "rerun"}
    BY DEF Thread!Init
  <2> QED
    BY <2>1, <2>2, <2>3 DEF ThreadTypes
<1>2. Handles
  BY DEF Thread!Init, Handles
<1>3. Thread!Created = {} /\ Joining = {} /\ instances = <<>> /\ threadHandle = 0
  BY DEF Thread!Init, Thread!Created, Joining
<1> QED
  BY <1>1, <1>2, <1>3
     DEF ThreadIInv, OneEntry, Accounted, ClosedWithoutEntry, JoinsCounted, EntryForJoins,
         NoEntryIsFinished

\* A Run closes the handle that no one closed; the exception is told by "rerun".
LEMMA RunKeeps ==
  ASSUME IsFiniteSet(Joiners), ThreadIInv, NEW b \in BOOLEAN, Thread!Run(b)
  PROVE  ThreadIInv'
<1> USE DEF ThreadIInv
<1> DEFINE h == Len(threads) + 1
<1>1. /\ object' = "alive" /\ mSelfDestruct' = b
      /\ threads' = Append(threads, "created")
      /\ closes' = Append(IF instances = <<>> THEN closes
                          ELSE Thread!Close(instances[1].handle), 0)
      /\ threadHandle' = h
      /\ instances' = << [handle |-> h, joinCount |-> 0] >>
      /\ UNCHANGED <<isRunning, joinerPc, waitsOn, joins, returned>>
  BY DEF Thread!Run, Thread!join
<1>2. /\ threadMishaps' \in {threadMishaps, threadMishaps \cup {"rerun"}}
      /\ "rerun" \notin threadMishaps' => Joining = {}
  BY DEF Thread!Run, Joining
<1>3. ThreadTypes'
  <2>1. threads' \in Seq(ThreadStates)
    BY <1>1 DEF ThreadTypes, ThreadStates
  <2> QED
    BY <1>1, <1>2, <2>1 DEF ThreadTypes
<1>4. /\ Len(threads) \in Nat /\ DOMAIN closes = 1 .. Len(threads)
      /\ instances # <<>> => instances[1].handle = threadHandle
  BY DEF ThreadTypes, Handles, OneEntry, Entry
<1>5. Handles'
  <2> DEFINE c == IF instances = <<>> THEN closes ELSE Thread!Close(instances[1].handle)
  <2>1. c \in Seq(Nat) /\ Len(c) = Len(closes)
    <3>1. CASE instances = <<>>
      BY <3>1 DEF Handles
    <3>2. CASE instances # <<>>
      BY <1>4, <3>2, CloseCounts DEF Handles, OneEntry
    <3> QED
      BY <3>1, <3>2
  <2>2. closes' = Append(c, 0)
    BY <1>1
  <2> HIDE DEF c
  <2>3. closes' \in Seq(Nat) /\ Len(closes') = Len(c) + 1
    BY <2>1, <2>2
  <2>4. Len(threads') = Len(threads) + 1
    BY <1>1 DEF ThreadTypes
  <2>5. Len(closes) = Len(threads) /\ threadHandle' = Len(threads) + 1
    BY <1>1 DEF Handles
  <2> QED
    BY <2>1, <2>3, <2>4, <2>5 DEF Handles
<1>6. OneEntry'
  BY <1>1, <1>4 DEF OneEntry, Entry
<1>7. ASSUME "rerun" \notin threadMishaps' PROVE Accounted'
  <2>1. "rerun" \notin threadMishaps /\ Joining = {} /\ Joining' = {}
    BY <1>1, <1>2, <1>7 DEF Joining
  <2>2. \A g \in Thread!Created : closes'[g] = 1
    BY <1>1, <1>4, <2>1 DEF Accounted, ClosedWithoutEntry, Thread!Created, Thread!Close,
                            Handles, ThreadTypes
  <2>3. /\ closes'[h] = 0
        /\ Thread!Created' = Thread!Created \cup {h} /\ h \notin Thread!Created
    BY <1>1, <1>4 DEF Thread!Created, Thread!Close, Handles, ThreadTypes
  <2>4. ClosedWithoutEntry'
    BY <1>1, <2>2, <2>3 DEF ClosedWithoutEntry
  <2>5. JoinsCounted'
    BY <1>1, <2>1, FS_EmptySet DEF JoinsCounted, Entry
  <2> QED
    BY <1>1, <2>4, <2>5 DEF Accounted, EntryForJoins
<1>8. NoEntryIsFinished'
  BY <1>1 DEF NoEntryIsFinished
<1> QED
  BY <1>3, <1>5, <1>6, <1>7, <1>8

\* Stop, and the steps of a thread that do not delete the object: threads change
\* their states, and none that had finished is running again.
LEMMA ThreadsMoveKeeps ==
  ASSUME ThreadIInv, threads' \in Seq(ThreadStates), Len(threads') = Len(threads),
         \A h \in Thread!Created : threads'[h] \in {"created", "running"} =>
                            threads[h] \in {"created", "running"},
         isRunning' \in BOOLEAN,
         UNCHANGED <<object, mSelfDestruct, threadHandle, instances, closes, joinerPc,
                     waitsOn, threadMishaps>>
  PROVE  ThreadIInv'
<1> USE DEF ThreadIInv
<1>1. Thread!Created' = Thread!Created /\ Joining' = Joining
  BY DEF Thread!Created, Joining, ThreadTypes
<1>2. ThreadTypes'
  BY DEF ThreadTypes
<1>3. Handles' /\ OneEntry'
  BY DEF Handles, OneEntry, Entry
<1>4. "rerun" \notin threadMishaps => Accounted'
  BY <1>1 DEF Accounted, ClosedWithoutEntry, JoinsCounted, EntryForJoins, Entry
<1>5. threadMishaps = {} => NoEntryIsFinished'
  <2>1. threadHandle # 0 => threadHandle \in Thread!Created
    BY DEF Handles, ThreadTypes, Thread!Created
  <2> QED
    BY <2>1 DEF NoEntryIsFinished
<1> QED
  BY <1>2, <1>3, <1>4, <1>5

\* Stop ends the last thread, or none.
LEMMA ThreadStopKeeps == ASSUME ThreadIInv, Thread!Stop PROVE ThreadIInv'
<1>1. threads \in Seq(ThreadStates)
  BY DEF ThreadIInv, ThreadTypes
<1>2. threads' = [threads EXCEPT ![threadHandle] = "exited"]
  BY DEF Thread!Stop, Thread!Stopped
<1>3. /\ threads' \in Seq(ThreadStates) /\ Len(threads') = Len(threads)
      /\ \A h \in Thread!Created : threads'[h] \in {threads[h], "exited"}
  <2>1. "exited" \in ThreadStates
    BY DEF ThreadStates
  <2>2. /\ [threads EXCEPT ![threadHandle] = "exited"] \in Seq(ThreadStates)
        /\ Len([threads EXCEPT ![threadHandle] = "exited"]) = Len(threads)
        /\ \A h \in DOMAIN threads :
             [threads EXCEPT ![threadHandle] = "exited"][h] \in {threads[h], "exited"}
    BY <1>1, <2>1, SequenceWrite
  <2> QED
    BY <1>2, <2>2 DEF Thread!Created
<1>4. /\ isRunning' \in BOOLEAN
      /\ UNCHANGED <<object, mSelfDestruct, threadHandle, instances, closes, joinerPc,
                     waitsOn, threadMishaps>>
  BY DEF Thread!Stop, Thread!join
<1>5. \A h \in Thread!Created : threads'[h] \in {"created", "running"} =>
                                threads[h] \in {"created", "running"}
  BY <1>3
<1> QED
  BY <1>3, <1>4, <1>5, ThreadsMoveKeeps

\* A thread goes on; it is running only after it was created.
LEMMA StepKeeps ==
  ASSUME ThreadIInv, NEW h \in Thread!Created,
     Thread!Start(h) \/ Thread!ProcReturns(h) \/ Thread!Exit(h)
  PROVE  ThreadIInv'
<1>1. threads \in Seq(ThreadStates)
  BY DEF ThreadIInv, ThreadTypes
<1>2. PICK s \in ThreadStates :
         /\ threads' = [threads EXCEPT ![h] = s]
         /\ s = "running" => threads[h] = "created"
         /\ s # "created"
  BY DEF Thread!Start, Thread!ProcReturns, Thread!Exit, ThreadStates
<1>3. /\ threads' \in Seq(ThreadStates) /\ Len(threads') = Len(threads)
      /\ \A g \in Thread!Created : threads'[g] \in {"created", "running"} =>
                             threads[g] \in {"created", "running"}
  BY <1>1, <1>2 DEF Thread!Created
<1>4. isRunning' \in BOOLEAN
  BY DEF Thread!Start, Thread!ProcReturns, Thread!Exit, Thread!self, ThreadIInv,
         ThreadTypes
<1> QED
  BY <1>3, <1>4, ThreadsMoveKeeps DEF Thread!Start, Thread!ProcReturns, Thread!Exit,
                                      Thread!self, Thread!join

\* The destructor, called by the owner or by the thread, removes the entry if no
\* one is joining.
LEMMA DestructorKeeps ==
  ASSUME IsFiniteSet(Joiners), ThreadIInv,
         object' = "deleted", isRunning' = FALSE, Thread!Unregistered, Thread!Orphaned,
         UNCHANGED <<mSelfDestruct, threadHandle, joinerPc, waitsOn>>,
         threads' \in Seq(ThreadStates), Len(threads') = Len(threads)
  PROVE  ThreadIInv'
<1> USE DEF ThreadIInv
<1>1. Thread!Created' = Thread!Created /\ Joining' = Joining
  BY DEF Thread!Created, Joining, ThreadTypes
<1>2. threadMishaps' \in {threadMishaps, threadMishaps \cup {"orphaned"}}
  BY DEF Thread!Orphaned
<1>3. ThreadTypes'
  BY <1>2 DEF ThreadTypes
<1>4. ASSUME instances # <<>> /\ instances[1].joinCount = 0
      PROVE  Handles' /\ OneEntry' /\ ("rerun" \notin threadMishaps => Accounted')
  <2>1. instances' = <<>> /\ closes' = Thread!Close(threadHandle)
    BY <1>4 DEF Thread!Unregistered
  <2>2. threadHandle \in DOMAIN closes /\ DOMAIN closes = Thread!Created
    BY <1>4 DEF Handles, OneEntry, ThreadTypes, Thread!Created
  <2>3. Handles' /\ OneEntry'
    BY <2>1, <2>2, CloseCounts DEF Handles, OneEntry
  <2>4. ASSUME "rerun" \notin threadMishaps PROVE Accounted'
    <3>1. ClosedWithoutEntry'
      <4>1. ASSUME NEW h \in Thread!Created PROVE closes'[h] = 1
        <5>1. closes[h] = IF h = threadHandle THEN 0 ELSE 1
          BY <1>4, <2>4 DEF Accounted, ClosedWithoutEntry
        <5> QED
          BY <2>1, <2>2, <5>1, CloseCounts
      <4> QED
        BY <1>1, <2>1, <4>1 DEF ClosedWithoutEntry
    <3>2. Joining = {}
      BY <1>4, <2>4, JoiningCounts DEF Accounted, JoinsCounted, Entry
    <3> QED
      BY <1>1, <2>1, <3>1, <3>2 DEF Accounted, JoinsCounted, EntryForJoins
  <2> QED
    BY <2>3, <2>4
<1>5. ASSUME ~(instances # <<>> /\ instances[1].joinCount = 0)
      PROVE  Handles' /\ OneEntry' /\ ("rerun" \notin threadMishaps => Accounted')
  <2>1. UNCHANGED <<instances, closes>>
    BY <1>5 DEF Thread!Unregistered
  <2>2. Handles' /\ OneEntry'
    BY <2>1 DEF Handles, OneEntry, Entry
  <2>3. ASSUME "rerun" \notin threadMishaps PROVE Accounted'
    <3>1. ClosedWithoutEntry' /\ JoinsCounted'
      BY <1>1, <2>1, <2>3 DEF Accounted, ClosedWithoutEntry, JoinsCounted, Entry
    <3>2. instances = <<>> \/ Joining # {}
      BY <1>5, <2>3, JoiningCounts DEF Accounted, JoinsCounted, Entry
    <3> QED
      BY <1>1, <2>1, <3>1, <3>2 DEF Accounted, EntryForJoins
  <2> QED
    BY <2>2, <2>3
<1>6. Handles' /\ OneEntry' /\ ("rerun" \notin threadMishaps' => Accounted')
  BY <1>2, <1>4, <1>5
<1>7. threadMishaps' = {} => NoEntryIsFinished'
  <2>1. threadHandle # 0 => threadHandle \in Thread!Created
    BY DEF Handles, ThreadTypes, Thread!Created
  <2> QED
    BY <2>1 DEF Thread!Orphaned, NoEntryIsFinished
<1> QED
  BY <1>3, <1>6, <1>7

\* The owner's delete terminates the last thread if it runs.
LEMMA DeleteKeeps == ASSUME IsFiniteSet(Joiners), ThreadIInv,
Thread!Delete PROVE ThreadIInv'
<1>1. threads \in Seq(ThreadStates)
  BY DEF ThreadIInv, ThreadTypes
<1>2. threads' \in {threads, [threads EXCEPT ![threadHandle] = "exited"]}
  BY DEF Thread!Delete, Thread!Stopped
<1>3. "exited" \in ThreadStates
  BY DEF ThreadStates
<1>4. threads' \in Seq(ThreadStates) /\ Len(threads') = Len(threads)
  BY <1>1, <1>2, <1>3, SequenceWrite
<1> QED
  BY <1>4, DestructorKeeps DEF Thread!Delete, Thread!join

\* A thread's delete terminates the last thread if it runs, and ends its own.
LEMMA SelfDestructKeeps ==
  ASSUME IsFiniteSet(Joiners), ThreadIInv, NEW h \in Thread!Created,
     Thread!SelfDestruct(h)
  PROVE  ThreadIInv'
<1>1. threads \in Seq(ThreadStates)
  BY DEF ThreadIInv, ThreadTypes
<1>2. PICK s \in {threads, [threads EXCEPT ![threadHandle] = "exited"]} :
         threads' = [s EXCEPT ![h] = "ending"]
  BY DEF Thread!SelfDestruct, Thread!Stopped
<1>3. "exited" \in ThreadStates /\ "ending" \in ThreadStates
  BY DEF ThreadStates
<1>4. s \in Seq(ThreadStates) /\ Len(s) = Len(threads)
  BY <1>1, <1>2, <1>3, SequenceWrite
<1>5. threads' \in Seq(ThreadStates) /\ Len(threads') = Len(threads)
  BY <1>2, <1>3, <1>4, SequenceWrite
<1> QED
  BY <1>5, DestructorKeeps DEF Thread!SelfDestruct, Thread!join

\* A Join that finds the entry is counted by it; one that does not is over.
LEMMA JoinEnterKeeps ==
  ASSUME IsFiniteSet(Joiners), ThreadIInv, NEW j \in Joiners, Thread!JoinEnter(j)
  PROVE  ThreadIInv'
<1> USE DEF ThreadIInv
<1>1. /\ UNCHANGED <<object, mSelfDestruct, isRunning, threadHandle, threads, closes,
                     threadMishaps>>
      /\ joinerPc[j] = "idle"
  BY DEF Thread!JoinEnter, Thread!self
<1>2. CASE instances = <<>>
  <2>1. UNCHANGED <<instances, waitsOn, joinerPc>>
    BY <1>2 DEF Thread!JoinEnter
  <2> QED
    BY <1>1, <2>1, ThreadsMoveKeeps DEF ThreadTypes
<1>3. CASE instances # <<>>
  <2>1. PICK n \in Int : instances = Entry(n)
    BY <1>3 DEF OneEntry
  <2>2. /\ instances' = Entry(n + 1) /\ threadHandle # 0
        /\ waitsOn' = [waitsOn EXCEPT ![j] = threadHandle]
        /\ joinerPc' = [joinerPc EXCEPT ![j] = "wait"]
    BY <1>3, <2>1 DEF Thread!JoinEnter, Entry, OneEntry
  <2>3. ThreadTypes' /\ Handles' /\ OneEntry'
    BY <1>1, <2>2 DEF ThreadTypes, Handles, OneEntry, Entry
  <2>4. /\ Thread!Created' = Thread!Created /\ Joining' = Joining \cup {j}
        /\ j \in Joiners \ Joining /\ instances' # <<>>
    BY <1>1, <2>2 DEF Thread!Created, Joining, ThreadTypes, Entry
  <2>5. ASSUME "rerun" \notin threadMishaps PROVE Accounted'
    <3>1. n = Cardinality(Joining)
      BY <1>3, <2>1, <2>5 DEF Accounted, JoinsCounted, Entry
    <3>2. Cardinality(Joining') = n + 1
      BY <2>4, <3>1, JoiningCounts
    <3>3. \A u \in Joining' : waitsOn'[u] = threadHandle
      BY <2>2, <2>4, <2>5 DEF Accounted, JoinsCounted, Joining, ThreadTypes
    <3>4. JoinsCounted'
      BY <1>1, <2>2, <2>4, <3>2, <3>3 DEF JoinsCounted, Entry
    <3>5. ClosedWithoutEntry' /\ EntryForJoins'
      BY <1>1, <1>3, <2>4, <2>5
         DEF Accounted, ClosedWithoutEntry, EntryForJoins
    <3> QED
      BY <3>4, <3>5 DEF Accounted
  <2>6. NoEntryIsFinished'
    BY <2>4 DEF NoEntryIsFinished
  <2> QED
    BY <1>1, <2>3, <2>5, <2>6
<1> QED
  BY <1>2, <1>3

\* The end of a wait leaves entry and handles alone.
LEMMA JoinWaitEndsKeeps ==
  ASSUME ThreadIInv, NEW j \in Joiners, Thread!JoinWaitEnds(j)
  PROVE  ThreadIInv'
<1> USE DEF ThreadIInv
<1>1. /\ UNCHANGED <<object, mSelfDestruct, isRunning, threadHandle, instances, threads,
                     closes, waitsOn, threadMishaps>>
      /\ joinerPc[j] = "wait" /\ joinerPc' = [joinerPc EXCEPT ![j] = "leave"]
  BY DEF Thread!JoinWaitEnds, Thread!self
<1>2. Joining' = Joining /\ Thread!Created' = Thread!Created
  BY <1>1 DEF Joining, Thread!Created, ThreadTypes
<1>3. ThreadTypes' /\ Handles' /\ OneEntry'
  BY <1>1 DEF ThreadTypes, Handles, OneEntry, Entry
<1>4. "rerun" \notin threadMishaps => Accounted'
  BY <1>1, <1>2 DEF Accounted, ClosedWithoutEntry, JoinsCounted, EntryForJoins, Entry
<1>5. threadMishaps = {} => NoEntryIsFinished'
  BY <1>1 DEF NoEntryIsFinished
<1> QED
  BY <1>1, <1>3, <1>4, <1>5

\* The last Join closes the handle and removes the entry; if the thread has not
\* ended, "forgotten" tells.
LEMMA JoinLeaveKeeps ==
  ASSUME IsFiniteSet(Joiners), ThreadIInv, NEW j \in Joiners, Thread!JoinLeave(j)
  PROVE  ThreadIInv'
<1> USE DEF ThreadIInv
<1>1. /\ UNCHANGED <<object, mSelfDestruct, isRunning, threadHandle, threads>>
      /\ joinerPc[j] = "leave" /\ joinerPc' = [joinerPc EXCEPT ![j] = "idle"]
      /\ waitsOn' = [waitsOn EXCEPT ![j] = 0]
      /\ threadMishaps' \in {threadMishaps, threadMishaps \cup {"forgotten"}}
  BY DEF Thread!JoinLeave, Thread!self
<1>2. ThreadTypes'
  BY <1>1 DEF ThreadTypes
<1>3. /\ Thread!Created' = Thread!Created /\ j \in Joining /\ Joining' = Joining \ {j}
      /\ \A u \in Joining' : waitsOn'[u] = waitsOn[u]
  BY <1>1 DEF Thread!Created, Joining, ThreadTypes
<1>4. CASE instances = <<>>
  <2>1. UNCHANGED <<instances, closes>>
    BY <1>4 DEF Thread!JoinLeave, Thread!LastJoin
  <2>2. "rerun" \in threadMishaps
    BY <1>3, <1>4 DEF Accounted, JoinsCounted
  <2>3. Handles' /\ OneEntry'
    BY <1>1, <1>4, <2>1 DEF Handles, OneEntry
  <2> QED
    BY <1>1, <1>2, <2>2, <2>3
<1>5. CASE instances # <<>>
  <2>1. PICK n \in Int : instances = Entry(n)
    BY <1>5 DEF OneEntry
  <2>2. /\ threadHandle # 0 /\ instances[1].handle = threadHandle
        /\ Thread!LastJoin <=> n = 1
    BY <1>5, <2>1 DEF OneEntry, Entry, Thread!LastJoin
  <2>3. threadHandle \in DOMAIN closes /\ DOMAIN closes = Thread!Created
    BY <2>2 DEF Handles, ThreadTypes, Thread!Created
  <2>4. "rerun" \notin threadMishaps =>
          /\ n = Cardinality(Joining) /\ Cardinality(Joining') = n - 1
          /\ \A u \in Joining' : waitsOn'[u] = threadHandle
    BY <1>3, <1>5, <2>1, JoiningCounts DEF Accounted, JoinsCounted, Entry
  <2>5. CASE n = 1
    <3>1. instances' = <<>> /\ closes' = Thread!Close(threadHandle)
      BY <2>2, <2>5 DEF Thread!JoinLeave
    <3>2. Handles' /\ OneEntry'
      BY <1>1, <2>3, <3>1, CloseCounts DEF Handles, OneEntry
    <3>3. ASSUME "rerun" \notin threadMishaps PROVE Accounted'
      <4>1. ASSUME NEW h \in Thread!Created PROVE closes'[h] = 1
        <5>1. closes[h] = IF h = threadHandle THEN 0 ELSE 1
          BY <1>5, <3>3 DEF Accounted, ClosedWithoutEntry
        <5> QED
          BY <2>3, <3>1, <5>1, CloseCounts
      <4>2. Joining' = {}
        <5>1. IsFiniteSet(Joining')
          BY <1>3, FS_Subset DEF Joining
        <5> QED
          BY <2>4, <2>5, <3>3, <5>1, FS_EmptySet
      <4> QED
        BY <1>3, <3>1, <4>1, <4>2
           DEF Accounted, ClosedWithoutEntry, JoinsCounted, EntryForJoins
    <3>4. threadMishaps' = {} => NoEntryIsFinished'
      BY <1>1, <2>2, <2>5 DEF Thread!JoinLeave, NoEntryIsFinished
    <3> QED
      BY <1>1, <1>2, <3>2, <3>3, <3>4
  <2>6. CASE n # 1
    <3>1. instances' = Entry(n - 1) /\ closes' = closes
      BY <2>1, <2>2, <2>6 DEF Thread!JoinLeave, Entry
    <3>2. instances' # <<>>
      BY <3>1 DEF Entry
    <3>3. Handles' /\ OneEntry'
      <4>1. n - 1 \in Int /\ threadHandle' = threadHandle
        BY <1>1
      <4>2. OneEntry'
        BY <2>2, <3>1, <4>1 DEF OneEntry, Entry
      <4> QED
        BY <1>1, <3>1, <4>2 DEF Handles
    <3>4. ASSUME "rerun" \notin threadMishaps PROVE Accounted'
      <4>1. ClosedWithoutEntry'
        BY <1>1, <1>3, <1>5, <3>1, <3>2, <3>4 DEF Accounted, ClosedWithoutEntry
      <4>2. JoinsCounted'
        BY <1>1, <2>4, <3>1, <3>2, <3>4 DEF JoinsCounted, Entry
      <4>3. Joining' # {}
        BY <2>4, <2>6, <3>4, FS_EmptySet
      <4> QED
        BY <4>1, <4>2, <4>3 DEF Accounted, EntryForJoins
    <3> QED
      BY <1>1, <1>2, <3>2, <3>3, <3>4 DEF NoEntryIsFinished
  <2> QED
    BY <2>5, <2>6
<1> QED
  BY <1>4, <1>5

\* ThreadIInv is inductive.
LEMMA ThreadNextIInv == ASSUME IsFiniteSet(Joiners), ThreadIInv,
[Thread!Next]_(Thread!vars) PROVE ThreadIInv'
<1>1. ASSUME NEW b \in BOOLEAN, Thread!Run(b) PROVE ThreadIInv'
  BY <1>1, RunKeeps
<1>2. CASE Thread!Stop
  BY <1>2, ThreadStopKeeps
<1>3. CASE Thread!Delete
  BY <1>3, DeleteKeeps
<1>4. ASSUME NEW h \in Thread!Created, Thread!Thread(h) PROVE ThreadIInv'
  BY <1>4, StepKeeps, SelfDestructKeeps DEF Thread!Thread
<1>5. ASSUME NEW j \in Joiners,
Thread!JoinEnter(j) \/ Thread!JoinWaitEnds(j) \/ Thread!JoinLeave(j)
      PROVE  ThreadIInv'
  BY <1>5, JoinEnterKeeps, JoinWaitEndsKeeps, JoinLeaveKeeps
<1>6. CASE UNCHANGED Thread!vars
  BY <1>6, ThreadsMoveKeeps DEF Thread!vars, Thread!self, Thread!join, ThreadIInv,
                                ThreadTypes
<1> QED
  BY <1>1, <1>2, <1>3, <1>4, <1>5, <1>6 DEF Thread!Next

\* The invariant of the thread holds in every reachable state.
LEMMA ThreadInvariance == PartsSpec => []ThreadIInv
<1>1. PartsInit => ThreadIInv
  BY ThreadInitIInv DEF PartsInit
<1>2. ThreadIInv /\ [Thread!Next]_(Thread!vars) => ThreadIInv'
  BY ThreadNextIInv, PartsAssumption
<1> QED
  BY <1>1, <1>2, ThreadSteps, PTL DEF PartsSpec

\* The sets of ThreadLife are counted as the sets of this module are.
LEMMA SameCardinality ==
  ASSUME NEW S
  PROVE  Thread!Cardinality(S) = Cardinality(S)
BY DEF Thread!Cardinality, Cardinality

\* A thread's handle is closed once, and not while a Join uses it; when the object
\* is deleted and no Join is in progress, all are closed and no entry is left.
THEOREM HandlesAreClosedOnce == PartsSpec => []HandlesClosedOnce
<1>1. ThreadIInv => HandlesClosedOnce
  <2> SUFFICES ASSUME ThreadIInv PROVE Thread!HandlesClosedOnce
    BY DEF HandlesClosedOnce
  <2>1. Thread!TypeOK
    <3>1. ASSUME instances # <<>>
          PROVE  /\ instances[1].handle = threadHandle
                 /\ "rerun" \notin threadMishaps =>
                      instances[1].joinCount = Cardinality(Joining)
      <4>1. ASSUME NEW n, instances = Entry(n)
            PROVE  instances[1].handle = threadHandle /\ instances[1].joinCount = n
        BY <4>1 DEF Entry
      <4>2. instances[1].handle = threadHandle
        BY <3>1, <4>1 DEF ThreadIInv, OneEntry
      <4>3. ASSUME "rerun" \notin threadMishaps
            PROVE  instances[1].joinCount = Cardinality(Joining)
        BY <3>1, <4>1, <4>3 DEF ThreadIInv, Accounted, JoinsCounted
      <4> QED
        BY <4>2, <4>3
    <3>2. /\ object \in {"alive", "deleted"}
          /\ isRunning \in BOOLEAN /\ mSelfDestruct \in BOOLEAN
          /\ threadMishaps \subseteq {"orphaned", "forgotten", "rerun"}
      BY DEF ThreadIInv, ThreadTypes
    <3>3. threads \in Seq({"created", "running", "returned", "ending", "exited"})
      BY DEF ThreadIInv, ThreadTypes, ThreadStates
    <3> QED
      BY <3>1, <3>2, <3>3, SameCardinality DEF Thread!TypeOK, Joining
  <2>2. ASSUME "rerun" \notin threadMishaps
        PROVE  /\ \A h \in Thread!Created : closes[h] \in {0, 1}
               /\ \A j \in Joining : closes[waitsOn[j]] = 0
               /\ object = "deleted" /\ Joining = {} =>
                    instances = <<>> /\ \A h \in Thread!Created : closes[h] = 1
    <3>1. instances # <<>> => threadHandle \in Thread!Created
      BY DEF ThreadIInv, OneEntry, Handles, ThreadTypes, Thread!Created
    <3> QED
      BY <2>2, <3>1
         DEF ThreadIInv, Accounted, ClosedWithoutEntry, JoinsCounted, EntryForJoins
  <2> QED
    BY <2>1, <2>2 DEF Thread!HandlesClosedOnce, Joining
<1> QED
  BY <1>1, ThreadInvariance, PTL

Results == returned \in [Joiners -> {"nothing", "finished", "timeout"}]

\* Every joiner has a result.
LEMMA ResultsTyped == PartsSpec => []Results
<1>1. PartsInit => Results
  BY DEF PartsInit, Thread!Init, Results
<1>2. Results /\ [Thread!Next]_(Thread!vars) => Results'
  BY DEF Results, Thread!Next, Thread!vars, Thread!Run, Thread!Stop, Thread!Delete,
         Thread!Thread, Thread!Start, Thread!ProcReturns,
         Thread!SelfDestruct, Thread!Exit, Thread!JoinEnter, Thread!JoinWaitEnds,
         Thread!JoinLeave, Thread!join
<1> QED
  BY <1>1, <1>2, ThreadSteps, PTL DEF PartsSpec

\* A Join that says the thread has finished is right, if nothing went wrong before.
THEOREM JoinsTellTheTruth == PartsSpec => JoinMeansFinished
<1>1. ASSUME ThreadIInv, Results, [Thread!Next]_(Thread!vars), NEW j \in Joiners,
             returned[j] # "finished", returned'[j] = "finished", threadMishaps = {}
      PROVE  threads[threadHandle] \notin {"created", "running"}
  <2>1. PICK i \in Joiners : Thread!JoinEnter(i) \/ Thread!JoinWaitEnds(i)
    BY <1>1 DEF Thread!Next, Thread!vars, Thread!Run, Thread!Stop, Thread!Delete,
                Thread!Thread, Thread!Start, Thread!ProcReturns, Thread!SelfDestruct,
                Thread!Exit, Thread!JoinLeave, Thread!join
  <2>2. CASE Thread!JoinEnter(i)
    <3>1. instances = <<>>
      BY <1>1, <2>2 DEF Thread!JoinEnter, Results
    <3>2. threadHandle # 0
      BY <1>1, <2>2 DEF Thread!JoinEnter, ThreadIInv, Handles, ThreadTypes, Thread!Created
    <3> QED
      BY <1>1, <3>1, <3>2 DEF ThreadIInv, NoEntryIsFinished
  <2>3. CASE Thread!JoinWaitEnds(i)
    <3>1. waitsOn[i] = threadHandle
      BY <1>1, <2>3 DEF Thread!JoinWaitEnds, ThreadIInv, Accounted, JoinsCounted, Joining
    <3> QED
      BY <1>1, <2>3, <3>1 DEF Thread!JoinWaitEnds, Results
  <2> QED
    BY <2>1, <2>2, <2>3
<1>2. ThreadIInv /\ Results /\ [Thread!Next]_(Thread!vars) =>
        [\A j \in Joiners : returned[j] # "finished" /\ returned'[j] = "finished" =>
           threadMishaps # {} \/
             threads[threadHandle] \notin {"created", "running"}]_(Thread!vars)
  BY <1>1
<1> QED
  BY <1>2, ThreadInvariance, ResultsTyped, ThreadSteps, PTL
     DEF PartsSpec, JoinMeansFinished, Thread!JoinMeansFinished

-----------------------------------------------------------------------------
\* Tickets.

\* A pad is used by the process it is in.
OutletsOwned ==
  /\ \A q \in Ticket!Processes :
       ourTicketOutlet[q] # 0 => outlets[ourTicketOutlet[q]] = q
  /\ \A t \in Threads : pad[t] # 0 => outlets[pad[t]] = ProcessOf[t]

InTicket(t) == ticketPc[t] \in {"count", "write", "return"}

OnePad == \A o, n \in Ticket!Counting : o = n

\* Who is in getTicket has a pad, which is locked and has read the file.
Locked ==
  \A t \in Threads : InTicket(t) =>
    pad[t] \in Ticket!Counting /\ lockTicketPad[pad[t]] = t

\* What the file holds is at or after the last ticket.
FileNotBehind ==
  last[1] < rounds \/ (last[1] = rounds /\ last[2] <= file)

\* A pad's number is in the file, or after it, unless it began anew and is still to
\* be written.
NumberNotBehind ==
  \A o \in Ticket!Counting :
    /\ TicketNumber[o] >= 1
    /\ (\A t \in Threads : pad[t] = o => ticketPc[t] # "write") =>
         TicketNumber[o] >= file

\* A number that was counted is after the last ticket.
NumberIsNew ==
  \A t \in Threads :
    /\ ticketPc[t] \in {"write", "return"} =>
         Ticket!Before(last, <<rounds, TicketNumber[pad[t]]>>)
    /\ ticketPc[t] = "return" => file = TicketNumber[pad[t]]

\* What holds without mishap.
Orderly ==
  /\ OnePad /\ Locked
  /\ FileNotBehind /\ NumberNotBehind /\ NumberIsNew
  /\ ~repeated

\* The inductive invariant.
TicketIInv == Ticket!TypeOK /\ OutletsOwned /\ (ticketMishaps = {} => Orderly)

\* Only one thread is in getTicket: its pad is the one that counts, and the lock of
\* that is its own.
LEMMA OneInTicket ==
  ASSUME Locked, OnePad, NEW t \in Threads, NEW u \in Threads,
         InTicket(t), InTicket(u)
  PROVE  t = u
BY DEF Locked, OnePad

\* A pad in use, and an outlet, is one of Outlets, and that is its process's.
LEMMA OwnedOutlets ==
  ASSUME Ticket!Parameters, Ticket!TypeOK, OutletsOwned
  PROVE  /\ \A t \in Threads : pad[t] # 0 =>
              /\ pad[t] \in Ticket!Outlets
              /\ outlets[pad[t]] = ProcessOf[t]
              /\ ProcessOf[t] \in Ticket!Processes \ {0}
         /\ \A q \in Ticket!Processes : ourTicketOutlet[q] # 0 =>
              /\ ourTicketOutlet[q] \in Ticket!Outlets
              /\ outlets[ourTicketOutlet[q]] = q
              /\ q # 0
<1>1. \A n \in 0 .. MaxOutlets : n # 0 => n \in Ticket!Outlets
  BY DEF Ticket!Parameters, Ticket!Outlets
<1>2. \A t \in Threads : pad[t] # 0 =>
        /\ pad[t] \in Ticket!Outlets
        /\ outlets[pad[t]] = ProcessOf[t]
        /\ ProcessOf[t] \in Ticket!Processes \ {0}
  BY <1>1 DEF Ticket!Parameters, Ticket!TypeOK, OutletsOwned, Ticket!Processes
<1>3. \A q \in Ticket!Processes : ourTicketOutlet[q] # 0 =>
        /\ ourTicketOutlet[q] \in Ticket!Outlets
        /\ outlets[ourTicketOutlet[q]] = q
        /\ q # 0
  BY <1>1, Zenon DEF Ticket!Parameters, Ticket!TypeOK, OutletsOwned
<1> QED
  BY <1>2, <1>3

\* TicketIInv holds before the first process has asked for a ticket.
LEMMA TicketInitIInv == ASSUME Ticket!Parameters, Ticket!Init PROVE TicketIInv
<1>1. file \in 0 .. MaxValue /\ rounds = 0 /\ last = <<0, 0>>
  BY DEF Ticket!Init, Ticket!Parameters
<1>2. Ticket!TypeOK
  <2>1. /\ ourTicketOutlet \in [Ticket!Processes -> 0 .. MaxOutlets]
        /\ outlets \in [Ticket!Outlets -> Ticket!Processes \cup {0}]
        /\ TicketNumber \in [Ticket!Outlets -> 0 .. MaxValue]
        /\ lockTicketPad \in [Ticket!Outlets -> Threads \cup {0}]
        /\ pad \in [Threads -> 0 .. MaxOutlets]
        /\ deaths \in 0 .. MaxDeaths
    BY DEF Ticket!Init, Ticket!Parameters
  <2>2. /\ bFirstReading \in [Ticket!Outlets -> BOOLEAN]
        /\ ticketPc \in [Threads -> {"idle", "create", "use", "count", "write", "return"}]
    BY DEF Ticket!Init
  <2>3. last \in Nat \X (0 .. MaxValue) /\ rounds \in Nat
    BY <1>1 DEF Ticket!Parameters
  <2>4. repeated \in BOOLEAN /\ ticketMishaps \subseteq {"two pads", "not written"}
    BY DEF Ticket!Init
  <2> QED
    BY <1>1, <2>1, <2>2, <2>3, <2>4 DEF Ticket!TypeOK
<1>3. OutletsOwned
  BY DEF Ticket!Init, OutletsOwned
<1>4. Ticket!Counting = {} /\ \A t \in Threads : ticketPc[t] = "idle"
  BY DEF Ticket!Init, Ticket!Counting
<1>5. FileNotBehind
  BY <1>1 DEF FileNotBehind
<1>6. ~repeated
  BY DEF Ticket!Init
<1> QED
  BY <1>2, <1>3, <1>4, <1>5, <1>6
     DEF TicketIInv, Orderly, OnePad, Locked, InTicket, NumberNotBehind, NumberIsNew

\* GetTicketPad creates outlets and gives out pads; it disturbs no ticket.
LEMMA GetTicketPadKeeps ==
  ASSUME Ticket!Parameters, TicketIInv, NEW t \in Threads,
         Ticket!TestOutlet(t) \/ Ticket!CreateOutlet(t) \/ Ticket!UseOutlet(t)
  PROVE  TicketIInv'
<1> USE DEF TicketIInv, Ticket!Goto, Ticket!heap, Ticket!counting, Ticket!history
<1>1. ProcessOf[t] \in Ticket!Processes /\ 0 \notin Ticket!Processes
  BY DEF Ticket!Processes, Ticket!Parameters
<1>2. ASSUME Ticket!TestOutlet(t) PROVE Ticket!TypeOK' /\ OutletsOwned'
  BY <1>2 DEF Ticket!TestOutlet, Ticket!TypeOK, OutletsOwned
<1>3. ASSUME Ticket!CreateOutlet(t) PROVE Ticket!TypeOK' /\ OutletsOwned'
  <2>1. PICK o \in Ticket!Outlets :
          /\ outlets[o] = 0
          /\ outlets' = [outlets EXCEPT ![o] = ProcessOf[t]]
          /\ ourTicketOutlet' = [ourTicketOutlet EXCEPT ![ProcessOf[t]] = o]
    BY <1>3 DEF Ticket!CreateOutlet
  <2>2. Ticket!TypeOK'
    BY <1>1, <1>3, <2>1 DEF Ticket!CreateOutlet, Ticket!TypeOK, Ticket!Outlets
  <2>3. \A q \in Ticket!Processes :
          ourTicketOutlet'[q] # 0 => outlets'[ourTicketOutlet'[q]] = q
    <3> SUFFICES ASSUME NEW q \in Ticket!Processes, ourTicketOutlet'[q] # 0
                 PROVE  outlets'[ourTicketOutlet'[q]] = q
      OBVIOUS
    <3>1. CASE q = ProcessOf[t]
      BY <1>1, <2>1, <3>1 DEF Ticket!TypeOK
    <3>2. CASE q # ProcessOf[t]
      BY <1>1, <2>1, <3>2, OwnedOutlets DEF Ticket!TypeOK
    <3> QED
      BY <3>1, <3>2
  <2>4. \A u \in Threads : pad'[u] # 0 => outlets'[pad'[u]] = ProcessOf[u]
    <3> SUFFICES ASSUME NEW u \in Threads, pad[u] # 0
                 PROVE  outlets'[pad[u]] = ProcessOf[u]
      BY <1>3 DEF Ticket!CreateOutlet
    <3> QED
      BY <2>1, OwnedOutlets DEF Ticket!TypeOK
  <2> QED
    BY <2>2, <2>3, <2>4 DEF OutletsOwned
<1>4. ASSUME Ticket!UseOutlet(t) PROVE Ticket!TypeOK' /\ OutletsOwned'
  BY <1>1, <1>4 DEF Ticket!UseOutlet, Ticket!TypeOK, OutletsOwned
<1>5. Ticket!TypeOK' /\ OutletsOwned'
  BY <1>2, <1>3, <1>4
<1>6. /\ ticketMishaps = {} /\ ticketMishaps' = {}
      /\ ticketPc[t] \in {"idle", "create", "use"}
      /\ ticketPc'[t] \in {"idle", "create", "use"}
      /\ \A u \in Threads \ {t} : ticketPc'[u] = ticketPc[u] /\ pad'[u] = pad[u]
      /\ UNCHANGED <<file, bFirstReading, TicketNumber, lockTicketPad, rounds, last,
                     repeated>>
  <2>1. CASE Ticket!TestOutlet(t)
    BY <2>1 DEF Ticket!TestOutlet, Ticket!TypeOK
  <2>2. CASE Ticket!CreateOutlet(t)
    BY <2>2 DEF Ticket!CreateOutlet, Ticket!TypeOK
  <2>3. CASE Ticket!UseOutlet(t)
    BY <2>3 DEF Ticket!UseOutlet, Ticket!TypeOK
  <2> QED
    BY <2>1, <2>2, <2>3
<1>7. OnePad' /\ Locked' /\ FileNotBehind' /\ ~repeated'
  BY <1>6 DEF Orderly, OnePad, Locked, FileNotBehind, Ticket!Counting, InTicket
<1>8. NumberNotBehind' /\ NumberIsNew'
  BY <1>6 DEF Orderly, NumberNotBehind, NumberIsNew, Ticket!Counting, Ticket!Before
<1> QED
  BY <1>5, <1>7, <1>8 DEF Orderly

\* The lock of the pad is taken, and a number read only if no other pad counts.
LEMMA ReadFileKeeps ==
  ASSUME Ticket!Parameters, TicketIInv, NEW t \in Threads, Ticket!ReadFile(t)
  PROVE  TicketIInv'
<1> USE DEF TicketIInv, Ticket!heap
<1> DEFINE o == pad[t]
<1>1. /\ ticketMishaps = {} /\ Orderly
      /\ o \in Ticket!Outlets /\ ticketPc[t] = "idle" /\ lockTicketPad[o] = 0
      /\ t # 0 /\ \A u \in Threads : u # 0
  BY OwnedOutlets DEF Ticket!ReadFile, Ticket!Goto, Ticket!Parameters
<1>2. /\ ticketPc' = [ticketPc EXCEPT ![t] = "count"]
      /\ lockTicketPad' = [lockTicketPad EXCEPT ![o] = t]
      /\ UNCHANGED <<file, ourTicketOutlet, outlets, pad, deaths, rounds, last, repeated>>
  BY DEF Ticket!ReadFile, Ticket!Goto
<1>3. Ticket!getConfigKey \in 1 .. MaxValue /\ file <= Ticket!getConfigKey
  <2>1. file \in 0 .. MaxValue /\ MaxValue \in Nat \ {0}
    BY DEF Ticket!TypeOK, Ticket!Parameters
  <2> QED
    BY <2>1 DEF Ticket!getConfigKey
<1>4. \/ /\ bFirstReading[o] /\ ticketMishaps' \subseteq {"two pads"}
         /\ TicketNumber' = [TicketNumber EXCEPT ![o] = Ticket!getConfigKey]
         /\ bFirstReading' = [bFirstReading EXCEPT ![o] = FALSE]
         /\ ticketMishaps' = {} => Ticket!Counting = {}
      \/ /\ ~bFirstReading[o]
         /\ UNCHANGED <<TicketNumber, bFirstReading, ticketMishaps>>
  <2>1. CASE bFirstReading[o]
    BY <1>1, <2>1 DEF Ticket!ReadFile
  <2>2. CASE ~bFirstReading[o]
    BY <1>1, <2>2 DEF Ticket!ReadFile
  <2> QED
    BY <2>1, <2>2
<1>5. Ticket!TypeOK' /\ OutletsOwned'
  <2>1. Ticket!getConfigKey \in 0 .. MaxValue
    BY <1>3
  <2>2. TicketNumber' \in [Ticket!Outlets -> 0 .. MaxValue]
    <3>1. \/ TicketNumber' = [TicketNumber EXCEPT ![o] = Ticket!getConfigKey]
          \/ TicketNumber' = TicketNumber
      BY <1>4, Zenon
    <3>2. TicketNumber \in [Ticket!Outlets -> 0 .. MaxValue]
      BY DEF Ticket!TypeOK
    <3> QED
      BY <1>1, <2>1, <3>1, <3>2
  <2>3. ticketMishaps' \subseteq {"two pads", "not written"}
    BY <1>1, <1>4 DEF Ticket!TypeOK
  <2>4. bFirstReading' \in [Ticket!Outlets -> BOOLEAN]
    BY <1>4, Zenon DEF Ticket!TypeOK
  <2> QED
    BY <1>1, <1>2, <2>2, <2>3, <2>4 DEF Ticket!TypeOK, OutletsOwned
<1>6. ASSUME ticketMishaps' = {}
      PROVE  /\ Ticket!Counting' = Ticket!Counting \cup {o}
             /\ OnePad'
             /\ \A n \in Ticket!Counting : TicketNumber'[n] = TicketNumber[n]
             /\ o \notin Ticket!Counting => TicketNumber'[o] = Ticket!getConfigKey
  <2>1. CASE bFirstReading[o]
    <3>1. Ticket!Counting = {} /\ Ticket!Counting' = {o}
      BY <1>1, <1>4, <1>6, <2>1 DEF Ticket!Counting, Ticket!TypeOK
    <3> QED
      BY <1>1, <1>4, <2>1, <3>1 DEF OnePad, Ticket!TypeOK
  <2>2. CASE ~bFirstReading[o]
    BY <1>1, <1>4, <2>2 DEF Orderly, OnePad, Ticket!Counting
  <2> QED
    BY <2>1, <2>2
<1>7. \A u \in Threads : InTicket(u) => u = t \/ pad[u] # o
  BY <1>1 DEF Orderly, Locked
<1>8. ASSUME ticketMishaps' = {} PROVE Locked'
  BY <1>1, <1>2, <1>6, <1>7, <1>8 DEF Orderly, Locked, InTicket, Ticket!TypeOK
<1>9. ASSUME ticketMishaps' = {} PROVE NumberNotBehind'
  BY <1>1, <1>2, <1>3, <1>6, <1>7, <1>9
     DEF Orderly, NumberNotBehind, InTicket, Ticket!TypeOK
<1>10. ASSUME ticketMishaps' = {} PROVE NumberIsNew'
  BY <1>1, <1>2, <1>6, <1>10
     DEF Orderly, NumberIsNew, Locked, InTicket, Ticket!Before, Ticket!TypeOK
<1>11. FileNotBehind' /\ ~repeated'
  BY <1>1, <1>2 DEF Orderly, FileNotBehind
<1> QED
  BY <1>5, <1>6, <1>8, <1>9, <1>10, <1>11 DEF Orderly

\* The next number is after the one in the file, or begins a round.
LEMMA CountKeeps ==
  ASSUME Ticket!Parameters, TicketIInv, NEW t \in Threads, Ticket!Count(t)
  PROVE  TicketIInv'
<1> USE DEF TicketIInv, Ticket!heap
<1> DEFINE o == pad[t]
           n == TicketNumber[o]
<1>1. /\ ticketMishaps = {} /\ ticketMishaps' = {} /\ Orderly
      /\ ticketPc[t] = "count" /\ o \in Ticket!Counting /\ o \in Ticket!Outlets
  BY DEF Ticket!Count, Ticket!Goto, Orderly, Locked, InTicket, Ticket!Counting
<1>2. /\ ticketPc' = [ticketPc EXCEPT ![t] = "write"]
      /\ TicketNumber' = [TicketNumber EXCEPT ![o] = IF n >= MaxValue THEN 1 ELSE n + 1]
      /\ rounds' = IF n >= MaxValue THEN rounds + 1 ELSE rounds
      /\ UNCHANGED <<file, ourTicketOutlet, outlets, bFirstReading, lockTicketPad, pad,
                     deaths, last, repeated>>
  BY DEF Ticket!Count, Ticket!Goto
<1>3. /\ n \in 1 .. MaxValue /\ file <= n /\ file \in Nat /\ rounds \in Nat
      /\ last \in Nat \X Nat
  <2>1. \A u \in Threads : pad[u] = o => ticketPc[u] # "write"
    BY <1>1, OneInTicket DEF Orderly, Locked, InTicket
  <2> QED
    BY <1>1, <2>1 DEF Orderly, NumberNotBehind, Ticket!TypeOK, Ticket!Parameters
<1>4. Ticket!TypeOK' /\ OutletsOwned'
  <2>1. TicketNumber' \in [Ticket!Outlets -> 0 .. MaxValue] /\ rounds' \in Nat
    BY <1>1, <1>2, <1>3 DEF Ticket!TypeOK, Ticket!Parameters
  <2> QED
    BY <1>1, <1>2, <2>1 DEF Ticket!TypeOK, OutletsOwned
<1>5. Ticket!Counting' = Ticket!Counting /\ OnePad' /\ Locked' /\ ~repeated'
  BY <1>1, <1>2 DEF Orderly, OnePad, Locked, Ticket!Counting, InTicket, Ticket!TypeOK
<1>6. FileNotBehind' /\ Ticket!Before(last, <<rounds', TicketNumber'[o]>>)
  BY <1>1, <1>2, <1>3 DEF Orderly, FileNotBehind, Ticket!Before, Ticket!TypeOK
<1>7. \A u \in Threads : ticketPc'[u] \in {"write", "return"} => u = t
  BY <1>1, <1>2, OneInTicket DEF Orderly, InTicket, Ticket!TypeOK
<1>8. NumberIsNew'
  BY <1>2, <1>6, <1>7, ticketPc'[t] = "write" DEF NumberIsNew, Ticket!Before,
                                                  Ticket!TypeOK
<1>9. NumberNotBehind'
  <2>1. \A m \in Ticket!Counting : m = o
    BY <1>1 DEF Orderly, OnePad
  <2>2. TicketNumber'[o] >= 1 /\ ticketPc'[t] = "write" /\ pad'[t] = o
    BY <1>1, <1>2, <1>3 DEF Ticket!TypeOK, Ticket!Parameters
  <2> QED
    BY <1>5, <2>1, <2>2 DEF NumberNotBehind
<1> QED
  BY <1>1, <1>4, <1>5, <1>6, <1>8, <1>9 DEF Orderly

\* The number is in the file before it is returned.
LEMMA SetConfigKeyKeeps ==
  ASSUME Ticket!Parameters, TicketIInv, NEW t \in Threads, Ticket!setConfigKey(t)
  PROVE  TicketIInv'
<1> USE DEF TicketIInv, Ticket!heap, Ticket!counting
<1> DEFINE o == pad[t]
<1>1. /\ ticketMishaps = {} /\ Orderly
      /\ ticketPc[t] = "write" /\ o \in Ticket!Counting /\ o \in Ticket!Outlets
  BY DEF Ticket!setConfigKey, Ticket!Goto, Orderly, Locked, InTicket, Ticket!Counting
<1>2. /\ ticketPc' = [ticketPc EXCEPT ![t] = "return"]
      /\ UNCHANGED <<ourTicketOutlet, outlets, bFirstReading, TicketNumber,
                     lockTicketPad, pad, deaths, rounds, last, repeated>>
  BY DEF Ticket!setConfigKey, Ticket!Goto
<1>3. /\ file' \in {file, TicketNumber[o]}
      /\ ticketMishaps' \in {{}, {"not written"}}
      /\ ticketMishaps' = {} => file' = TicketNumber[o]
  BY <1>1 DEF Ticket!setConfigKey, Ticket!WritePrivateProfileStr
<1>4. Ticket!TypeOK' /\ OutletsOwned'
  <2>1. file' \in 0 .. MaxValue
    <3>1. file \in 0 .. MaxValue /\ TicketNumber \in [Ticket!Outlets -> 0 .. MaxValue]
      BY DEF Ticket!TypeOK
    <3> QED
      BY <1>1, <1>3, <3>1
  <2> QED
    BY <1>1, <1>2, <1>3, <2>1 DEF Ticket!TypeOK, OutletsOwned
<1>5. Ticket!Counting' = Ticket!Counting /\ OnePad' /\ Locked' /\ ~repeated'
  BY <1>1, <1>2 DEF Orderly, OnePad, Locked, Ticket!Counting, InTicket, Ticket!TypeOK
<1>6. /\ Ticket!Before(last, <<rounds, TicketNumber[o]>>)
      /\ \A m \in Ticket!Counting : m = o
      /\ \A u \in Threads : ticketPc'[u] \in {"write", "return"} => u = t
  BY <1>1, <1>2, OneInTicket DEF Orderly, OnePad, NumberIsNew, InTicket, Ticket!TypeOK
<1>7. ASSUME ticketMishaps' = {} PROVE FileNotBehind'
  <2>1. last \in Nat \X Nat /\ rounds \in Nat /\ TicketNumber[o] \in Nat
    BY <1>1 DEF Ticket!TypeOK, Ticket!Parameters
  <2> QED
    BY <1>2, <1>3, <1>6, <1>7, <2>1 DEF FileNotBehind, Ticket!Before
<1>8. ASSUME ticketMishaps' = {} PROVE NumberNotBehind'
  <2>1. TicketNumber[o] \in Nat /\ TicketNumber[o] >= 1
    BY <1>1 DEF Ticket!TypeOK, Orderly, NumberNotBehind, Ticket!Parameters
  <2> QED
    BY <1>2, <1>3, <1>5, <1>6, <1>8, <2>1 DEF NumberNotBehind
<1>9. ASSUME ticketMishaps' = {} PROVE NumberIsNew'
  BY <1>2, <1>3, <1>6, <1>9 DEF NumberIsNew, Ticket!Before
<1> QED
  BY <1>4, <1>5, <1>7, <1>8, <1>9 DEF Orderly

\* The ticket returned is after the last one.
LEMMA ReturnKeeps ==
  ASSUME Ticket!Parameters, TicketIInv, NEW t \in Threads, Ticket!Return(t)
  PROVE  TicketIInv'
<1> USE DEF TicketIInv, Ticket!heap
<1> DEFINE o == pad[t]
<1>1. /\ ticketMishaps = {} /\ ticketMishaps' = {} /\ Orderly
      /\ ticketPc[t] = "return" /\ o \in Ticket!Counting /\ o \in Ticket!Outlets
  BY DEF Ticket!Return, Ticket!Goto, Orderly, Locked, InTicket, Ticket!Counting
<1>2. /\ ticketPc' = [ticketPc EXCEPT ![t] = "idle"]
      /\ lockTicketPad' = [lockTicketPad EXCEPT ![o] = 0]
      /\ last' = <<rounds, TicketNumber[o]>>
      /\ UNCHANGED <<file, ourTicketOutlet, outlets, bFirstReading, TicketNumber, pad,
                     deaths, rounds>>
  BY DEF Ticket!Return, Ticket!Goto
<1>3. /\ Ticket!Before(last, last') /\ file = TicketNumber[o]
      /\ \A m \in Ticket!Counting : m = o
      /\ \A u \in Threads : ~(InTicket(u))'
  BY <1>1, <1>2, OneInTicket DEF Orderly, OnePad, NumberIsNew, InTicket, Ticket!TypeOK
<1>4. repeated' = FALSE
  BY <1>1, <1>3 DEF Ticket!Return, Orderly
<1>5. Ticket!TypeOK' /\ OutletsOwned'
  <2>1. last' \in Nat \X (0 .. MaxValue)
    BY <1>1, <1>2 DEF Ticket!TypeOK
  <2> QED
    BY <1>1, <1>2, <1>4, <2>1 DEF Ticket!TypeOK, OutletsOwned
<1>6. Ticket!Counting' = Ticket!Counting /\ OnePad' /\ Locked' /\ NumberIsNew'
  BY <1>1, <1>2, <1>3 DEF Orderly, OnePad, Locked, Ticket!Counting, InTicket, NumberIsNew
<1>7. file \in Nat /\ rounds \in Nat /\ TicketNumber[o] >= 1
  BY <1>1 DEF Ticket!TypeOK, Orderly, NumberNotBehind, Ticket!Parameters
<1>8. FileNotBehind' /\ NumberNotBehind'
  BY <1>2, <1>3, <1>6, <1>7 DEF FileNotBehind, NumberNotBehind
<1> QED
  BY <1>4, <1>5, <1>6, <1>8 DEF Orderly

\* The pads of a process are gone with it, and so are the tickets they were about to
\* give.
LEMMA DieKeeps ==
  ASSUME Ticket!Parameters, TicketIInv, NEW q \in Ticket!Processes, Ticket!Die(q)
  PROVE  TicketIInv'
<1> USE DEF TicketIInv
<1>1. /\ ticketMishaps = {} /\ ticketMishaps' = {} /\ Orderly
      /\ UNCHANGED <<file, rounds, last, repeated>>
      /\ ourTicketOutlet' = [ourTicketOutlet EXCEPT ![q] = 0]
      /\ outlets' = [o \in Ticket!Outlets |-> IF outlets[o] = q THEN 0 ELSE outlets[o]]
      /\ TicketNumber' =
           [o \in Ticket!Outlets |-> IF outlets[o] = q THEN 0 ELSE TicketNumber[o]]
      /\ lockTicketPad' =
           [o \in Ticket!Outlets |-> IF outlets[o] = q THEN 0 ELSE lockTicketPad[o]]
      /\ ticketPc' = [t \in Threads |-> IF ProcessOf[t] = q THEN "idle" ELSE ticketPc[t]]
      /\ pad' = [t \in Threads |-> IF ProcessOf[t] = q THEN 0 ELSE pad[t]]
  BY DEF Ticket!Die, Ticket!history
<1>2. bFirstReading' =
        [o \in Ticket!Outlets |-> IF outlets[o] = q THEN TRUE ELSE bFirstReading[o]]
  BY DEF Ticket!Die
<1>3. Ticket!TypeOK'
  <2>1. 0 \in 0 .. MaxOutlets /\ 0 \in 0 .. MaxValue /\ deaths' \in 0 .. MaxDeaths
    BY DEF Ticket!Parameters, Ticket!Die, Ticket!TypeOK
  <2>2. /\ ourTicketOutlet' \in [Ticket!Processes -> 0 .. MaxOutlets]
        /\ outlets' \in [Ticket!Outlets -> Ticket!Processes \cup {0}]
        /\ TicketNumber' \in [Ticket!Outlets -> 0 .. MaxValue]
        /\ lockTicketPad' \in [Ticket!Outlets -> Threads \cup {0}]
    BY <1>1, <2>1 DEF Ticket!TypeOK
  <2>3. /\ ticketPc' \in
             [Threads -> {"idle", "create", "use", "count", "write", "return"}]
        /\ pad' \in [Threads -> 0 .. MaxOutlets]
    BY <1>1, <2>1 DEF Ticket!TypeOK
  <2>4. bFirstReading' \in [Ticket!Outlets -> BOOLEAN]
    BY <1>2, Zenon DEF Ticket!TypeOK
  <2> QED
    BY <1>1, <2>1, <2>2, <2>3, <2>4 DEF Ticket!TypeOK
<1>4. OutletsOwned'
  <2>1. \A r \in Ticket!Processes :
          ourTicketOutlet'[r] # 0 => outlets'[ourTicketOutlet'[r]] = r
    BY <1>1, OwnedOutlets DEF Ticket!TypeOK
  <2>2. \A t \in Threads : pad'[t] # 0 => outlets'[pad'[t]] = ProcessOf[t]
    BY <1>1, OwnedOutlets DEF Ticket!TypeOK
  <2> QED
    BY <2>1, <2>2 DEF OutletsOwned
<1>5. /\ Ticket!Counting' \subseteq Ticket!Counting
      /\ \A o \in Ticket!Counting' : TicketNumber'[o] = TicketNumber[o]
      /\ \A o \in Ticket!Counting : outlets[o] # q => o \in Ticket!Counting'
  BY <1>1, <1>2 DEF Ticket!Counting
<1>6. \A t \in Threads : (InTicket(t))' =>
        /\ InTicket(t) /\ ticketPc'[t] = ticketPc[t] /\ pad'[t] = pad[t]
        /\ pad[t] \in Ticket!Counting' /\ pad[t] \in Ticket!Outlets
        /\ lockTicketPad'[pad[t]] = t
        /\ TicketNumber'[pad[t]] = TicketNumber[pad[t]]
  <2> SUFFICES ASSUME NEW t \in Threads, (InTicket(t))'
               PROVE  /\ InTicket(t) /\ ticketPc'[t] = ticketPc[t] /\ pad'[t] = pad[t]
                      /\ pad[t] \in Ticket!Counting' /\ pad[t] \in Ticket!Outlets
                      /\ lockTicketPad'[pad[t]] = t
                      /\ TicketNumber'[pad[t]] = TicketNumber[pad[t]]
    OBVIOUS
  <2>1. /\ ProcessOf[t] # q /\ InTicket(t)
        /\ ticketPc'[t] = ticketPc[t] /\ pad'[t] = pad[t]
    BY <1>1 DEF InTicket
  <2>2. /\ pad[t] \in Ticket!Counting /\ pad[t] \in Ticket!Outlets /\ pad[t] # 0
        /\ lockTicketPad[pad[t]] = t
    BY <1>1, <2>1 DEF Orderly, Locked, Ticket!Counting, Ticket!Outlets
  <2>3. outlets[pad[t]] # q
    BY <2>1, <2>2, OwnedOutlets
  <2> QED
    BY <1>1, <1>5, <2>1, <2>2, <2>3
<1>7. OnePad' /\ Locked' /\ FileNotBehind' /\ ~repeated'
  BY <1>1, <1>5, <1>6 DEF Orderly, OnePad, Locked, FileNotBehind
<1>8. NumberIsNew'
  BY <1>1, <1>6 DEF Orderly, NumberIsNew, Ticket!Before, InTicket
<1>9. NumberNotBehind'
  <2> SUFFICES ASSUME NEW o \in Ticket!Counting'
               PROVE  /\ TicketNumber[o] >= 1
                      /\ (\A t \in Threads : pad'[t] = o => ticketPc'[t] # "write") =>
                           TicketNumber[o] >= file
    BY <1>1, <1>5 DEF NumberNotBehind
  <2>1. o \in Ticket!Outlets /\ outlets[o] # q
    BY <1>1, <1>2 DEF Ticket!Counting
  <2>2. \A t \in Threads : pad[t] = o => pad'[t] = o /\ ticketPc'[t] = ticketPc[t]
    BY <1>1, <2>1, OwnedOutlets DEF Ticket!Outlets
  <2> QED
    BY <1>1, <1>5, <2>2 DEF Orderly, NumberNotBehind
<1> QED
  BY <1>3, <1>4, <1>7, <1>8, <1>9 DEF Orderly

\* TicketIInv is inductive.
LEMMA TicketNextIInv == ASSUME Ticket!Parameters, TicketIInv,
[Ticket!Next]_(Ticket!vars) PROVE TicketIInv'
<1>1. ASSUME NEW t \in Threads,
             \/ Ticket!TestOutlet(t) \/ Ticket!CreateOutlet(t) \/ Ticket!UseOutlet(t)
             \/ Ticket!ReadFile(t) \/ Ticket!Count(t) \/ Ticket!setConfigKey(t)
             \/ Ticket!Return(t)
      PROVE  TicketIInv'
  BY <1>1, GetTicketPadKeeps, ReadFileKeeps, CountKeeps, SetConfigKeyKeeps,
     ReturnKeeps
<1>2. ASSUME NEW q \in Ticket!Processes, Ticket!Die(q) PROVE TicketIInv'
  BY <1>2, DieKeeps
<1>3. CASE UNCHANGED Ticket!vars
  <2>1. Ticket!TypeOK' /\ OutletsOwned'
    BY <1>3 DEF TicketIInv, Ticket!TypeOK, OutletsOwned, Ticket!vars, Ticket!heap,
                Ticket!counting, Ticket!history
  <2>2. ticketMishaps' = {} => Orderly'
    BY <1>3 DEF TicketIInv, Orderly, OnePad, Locked, FileNotBehind, NumberNotBehind,
                NumberIsNew, Ticket!Counting, InTicket, Ticket!Before, Ticket!vars,
                Ticket!heap, Ticket!counting, Ticket!history
  <2> QED
    BY <2>1, <2>2 DEF TicketIInv
<1> QED
  BY <1>1, <1>2, <1>3 DEF Ticket!Next

\* Without mishap no ticket is issued twice in a round, for any number of threads
\* and processes, wherever processes die.
THEOREM TicketsAreUnique == PartsSpec => []TicketsUnique
<1>1. TicketIInv => TicketsUnique
  <2> SUFFICES ASSUME TicketIInv PROVE Ticket!TicketsUnique
    BY DEF TicketsUnique
  <2>1. last[1] \in Nat /\ last[2] \in Nat /\ file \in Nat /\ rounds \in Nat
    <3>1. /\ last \in Nat \X (0 .. MaxValue) /\ file \in 0 .. MaxValue
          /\ rounds \in Nat /\ MaxValue \in Nat
      BY PartsAssumption DEF TicketIInv, Ticket!TypeOK, Ticket!Parameters
    <3> QED
      BY <3>1
  <2>2. ticketMishaps = {} /\ last[2] > 0 =>
          file = last[2] \/ Ticket!Before(last, <<rounds, file>>)
    BY <2>1 DEF TicketIInv, Orderly, FileNotBehind, Ticket!Before
  <2> QED
    BY <2>2 DEF TicketIInv, Orderly, Ticket!TicketsUnique
<1>2. PartsInit => TicketIInv
  BY TicketInitIInv, PartsAssumption DEF PartsInit
<1>3. TicketIInv /\ [Ticket!Next]_(Ticket!vars) => TicketIInv'
  BY TicketNextIInv, PartsAssumption
<1> QED
  BY <1>1, <1>2, <1>3, TicketSteps, PTL DEF PartsSpec

-----------------------------------------------------------------------------
\* The monitor.

Monitors(h) == monitors[h] \in {"top", "check", "wait"}

\* The one thread that is not over is the entry of gThreadInstances.
OneThread == \A h \in DOMAIN monitors : ~Monitor!Over(h) => h = entry

\* A thread in the loop has set isRunning, and no other has reset it.
RunningIsKnown == \A h \in DOMAIN monitors : Monitors(h) => monitorRuns

\* The signal of Stop is there until the wait that follows takes it.  A thread that
\* took it is at the top of the loop, where it finds mTerminate.
SignalKept ==
  stopping = "join" =>
    \A h \in DOMAIN monitors : monitors[h] \in {"check", "wait"} => mWaitEvent

NoneAfterStop == ~started => \A h \in DOMAIN monitors : Monitor!Over(h)

\* The inductive invariant.
MonitorIInv ==
  /\ Monitor!TypeOK
  /\ stopping # "no" => mTerminate
  /\ ~twice => OneThread /\ RunningIsKnown /\ SignalKept /\ NoneAfterStop

\* MonitorIInv holds at first: there are no threads.
LEMMA MonitorInitIInv == Monitor!Init => MonitorIInv
<1> SUFFICES ASSUME Monitor!Init PROVE MonitorIInv
  OBVIOUS
<1>1. Monitor!TypeOK
  <2>1. monitors \in
          Seq({"created", "top", "check", "wait", "returned", "exited"})
    BY DEF Monitor!Init
  <2>2. entry \in 0 .. Len(monitors)
    BY DEF Monitor!Init
  <2>3. /\ mTerminate \in BOOLEAN /\ mWaitEvent \in BOOLEAN /\ monitorRuns \in BOOLEAN
        /\ stopping \in {"no", "signal", "join"}
    BY DEF Monitor!Init
  <2> QED
    BY <2>1, <2>2, <2>3 DEF Monitor!TypeOK
<1>2. DOMAIN monitors = {}
  BY DEF Monitor!Init
<1>3. stopping = "no"
  BY DEF Monitor!Init
<1> QED
  BY <1>1, <1>2, <1>3 DEF MonitorIInv, OneThread, RunningIsKnown, SignalKept,
                          NoneAfterStop

\* A Start finds no thread in the loop, so all are over or there are two.
LEMMA StartKeeps == MonitorIInv /\ Monitor!StartMonitorForPVFC => MonitorIInv'
<1> SUFFICES ASSUME MonitorIInv, Monitor!StartMonitorForPVFC PROVE MonitorIInv'
  OBVIOUS
<1> USE DEF Monitor!StartMonitorForPVFC, MonitorIInv, Monitor!TypeOK
<1>1. /\ Monitor!TypeOK'
      /\ DOMAIN monitors' = DOMAIN monitors \cup {entry'}
      /\ monitors'[entry'] = "created"
      /\ \A h \in DOMAIN monitors : monitors'[h] = monitors[h]
  OBVIOUS
<1>2. ASSUME ~twice' PROVE \A h \in DOMAIN monitors : Monitor!Over(h)
  <2>1. ~twice /\ \A h \in DOMAIN monitors : monitors[h] # "created" /\ ~Monitors(h)
    BY <1>2 DEF RunningIsKnown
  <2> QED
    BY <2>1 DEF Monitors, Monitor!Over
<1>3. ~twice' => OneThread' /\ RunningIsKnown' /\ SignalKept' /\ NoneAfterStop'
  BY <1>1, <1>2 DEF OneThread, RunningIsKnown, SignalKept, NoneAfterStop, Monitors,
                    Monitor!Over
<1> QED
  BY <1>1, <1>3

\* A Stop and its Signal change no thread.
LEMMA MonitorStopKeeps ==
  MonitorIInv /\ (Monitor!StopMonitorForPVFC \/ Monitor!Signal) => MonitorIInv'
  BY DEF Monitor!StopMonitorForPVFC, Monitor!Signal, MonitorIInv, Monitor!TypeOK,
         OneThread, RunningIsKnown,
         SignalKept, NoneAfterStop, Monitors, Monitor!Over

\* A Join waits for the only thread that may not be over.
LEMMA JoinKeeps == MonitorIInv /\ Monitor!Join => MonitorIInv'
  BY DEF Monitor!Join, MonitorIInv, Monitor!TypeOK, OneThread, RunningIsKnown,
         SignalKept, NoneAfterStop,
         Monitors, Monitor!Over

\* A step of the thread: the others, all over, stay where they are.
LEMMA ThreadKeeps ==
  ASSUME NEW h \in DOMAIN monitors, MonitorIInv,
         \/ Monitor!Begins(h) \/ Monitor!GoesOn(h) \/ Monitor!Returns(h)
         \/ Monitor!CheckForPVFC(h) \/ Monitor!WaitEnds(h) \/ Monitor!Ends(h)
  PROVE  MonitorIInv'
<1> USE DEF MonitorIInv, Monitor!TypeOK, Monitor!Goes
<1>1. PICK s \in {"top", "check", "wait", "returned", "exited"} :
           monitors' = [monitors EXCEPT ![h] = s]
  BY DEF Monitor!Begins, Monitor!GoesOn, Monitor!Returns, Monitor!CheckForPVFC,
         Monitor!WaitEnds, Monitor!Ends
<1>2. /\ monitors' \in Seq({"created", "top", "check", "wait", "returned", "exited"})
      /\ DOMAIN monitors' = DOMAIN monitors
      /\ Len(monitors') = Len(monitors)
  BY <1>1
<1>3. Monitor!TypeOK'
  BY <1>2 DEF Monitor!Begins, Monitor!GoesOn, Monitor!Returns, Monitor!CheckForPVFC,
              Monitor!WaitEnds, Monitor!Ends
<1>4. stopping' # "no" => mTerminate'
  BY DEF Monitor!Begins, Monitor!GoesOn, Monitor!Returns, Monitor!CheckForPVFC,
         Monitor!WaitEnds, Monitor!Ends
<1>5. ASSUME ~twice, OneThread
      PROVE  OneThread' /\ NoneAfterStop'
  BY <1>2, <1>5
     DEF Monitor!Begins, Monitor!GoesOn, Monitor!Returns, Monitor!CheckForPVFC,
         Monitor!WaitEnds, Monitor!Ends, OneThread,
         NoneAfterStop, Monitor!Over
<1>6. ASSUME ~twice, OneThread PROVE RunningIsKnown'
  BY <1>2, <1>6
     DEF Monitor!Begins, Monitor!GoesOn, Monitor!Returns, Monitor!CheckForPVFC,
         Monitor!WaitEnds, Monitor!Ends, OneThread,
         RunningIsKnown, Monitors, Monitor!Over
<1>7. ASSUME ~twice, OneThread PROVE SignalKept'
  BY <1>2, <1>7
     DEF Monitor!Begins, Monitor!GoesOn, Monitor!Returns, Monitor!CheckForPVFC,
         Monitor!WaitEnds, Monitor!Ends, OneThread,
         SignalKept, Monitor!Over
<1>8. ~twice' => ~twice /\ OneThread
  BY DEF Monitor!Begins, Monitor!GoesOn, Monitor!Returns, Monitor!CheckForPVFC,
         Monitor!WaitEnds, Monitor!Ends
<1> QED
  BY <1>3, <1>4, <1>5, <1>6, <1>7, <1>8

\* MonitorIInv is inductive.
LEMMA MonitorNextIInv == MonitorIInv /\ [Monitor!Next]_(Monitor!vars) => MonitorIInv'
<1> SUFFICES ASSUME MonitorIInv, [Monitor!Next]_(Monitor!vars) PROVE MonitorIInv'
  OBVIOUS
<1>1. CASE Monitor!StartMonitorForPVFC
  BY <1>1, StartKeeps
<1>2. CASE Monitor!StopMonitorForPVFC \/ Monitor!Signal
  BY <1>2, MonitorStopKeeps
<1>3. CASE Monitor!Join
  BY <1>3, JoinKeeps
<1>4. CASE Monitor!WindowShows
  BY <1>4 DEF Monitor!WindowShows, MonitorIInv, Monitor!TypeOK, OneThread,
              RunningIsKnown, SignalKept,
              NoneAfterStop, Monitors, Monitor!Over, Monitor!control
<1>5. CASE \E h \in DOMAIN monitors :
             \/ Monitor!Begins(h) \/ Monitor!GoesOn(h) \/ Monitor!Returns(h)
             \/ Monitor!CheckForPVFC(h) \/ Monitor!WaitEnds(h) \/ Monitor!Ends(h)
  BY <1>5, ThreadKeeps
<1>6. CASE UNCHANGED Monitor!vars
  BY <1>6 DEF Monitor!vars, Monitor!control, MonitorIInv, Monitor!TypeOK, OneThread,
              RunningIsKnown, SignalKept,
              NoneAfterStop, Monitors, Monitor!Over
<1> QED
  BY <1>1, <1>2, <1>3, <1>4, <1>5, <1>6 DEF Monitor!Next

\* However often it is started and stopped, a Stop of the monitor never waits for
\* its period and leaves no thread, unless it was started twice at once.
THEOREM StopEndsIt == PartsSpec => []StopEndsMonitoring
<1>1. MonitorIInv => StopEndsMonitoring
  BY DEF MonitorIInv, StopEndsMonitoring, Monitor!StopEndsMonitoring, OneThread,
         SignalKept,
         NoneAfterStop
<1>2. PartsInit => MonitorIInv
  BY MonitorInitIInv DEF PartsInit
<1> QED
  BY <1>1, <1>2, MonitorNextIInv, MonitorSteps, PTL DEF PartsSpec

-----------------------------------------------------------------------------
\* The map.

\* Every set of keys in the map has a least one: the map is finite.
Bounded(S) == \A T \in SUBSET S : T # {} => \E k \in T : \A j \in T : k <= j

\* The keys returned go up to the current one.
Ascending ==
  /\ \A i, j \in DOMAIN visitedKeys : i < j => visitedKeys[i] < visitedKeys[j]
  /\ keyIteration = "going" =>
       /\ currentKey \in Keys
       /\ \A i \in DOMAIN visitedKeys : visitedKeys[i] <= currentKey

\* Of the keys that stay, those up to the current one were returned.
NonePassedBy ==
  /\ keptKeys \subseteq DOMAIN mMap
  /\ \A k \in keptKeys \ Map!Range(visitedKeys) : keyIteration = "cut" \/ currentKey < k
  /\ keyIteration = "complete" => keptKeys \subseteq Map!Range(visitedKeys)
  /\ keyIteration = "cut" => currentKey \notin keptKeys

\* The inductive invariant.
MapIInv == Map!TypeOK /\ Bounded(DOMAIN mMap) /\ Ascending /\ NonePassedBy

\* MapIInv holds of the empty map.
LEMMA MapInitIInv == ASSUME Map!Init PROVE MapIInv
<1>1. DOMAIN mMap = {} /\ DOMAIN visitedKeys = {} /\ Map!Range(visitedKeys) = {}
  BY DEF Map!Init, Map!Range
<1>2. visitedKeys \in Seq(Keys)
  BY DEF Map!Init
<1> QED
  BY <1>1, <1>2 DEF Map!Init, MapIInv, Map!TypeOK, Bounded, Ascending, NonePassedBy

\* A map with one more key is as finite as it was, and so is one with fewer.
LEMMA BoundedMore ==
  ASSUME Keys \subseteq Int, NEW S \in SUBSET Keys, Bounded(S), NEW key \in Keys
  PROVE  Bounded(S \cup {key})
<1> SUFFICES ASSUME NEW T \in SUBSET (S \cup {key}), T # {}
             PROVE  \E k \in T : \A j \in T : k <= j
  BY DEF Bounded
<1>1. CASE T \ {key} = {}
  <2>1. key \in T /\ \A j \in T : j = key
    BY <1>1
  <2>2. key \in Int
    OBVIOUS
  <2> QED
    BY <2>1, <2>2
<1>2. CASE T \ {key} # {}
  <2>1. PICK k \in T \ {key} : \A j \in T \ {key} : k <= j
    BY <1>2 DEF Bounded
  <2>2. \A j \in T : j \in Int
    OBVIOUS
  <2> QED
    BY <2>1, <2>2
<1> QED
  BY <1>1, <1>2

\* The least key.
LEMMA LeastIs ==
  ASSUME NEW S \in SUBSET Keys, Bounded(DOMAIN mMap), S \subseteq DOMAIN mMap, S # {}
  PROVE  Map!Least(S) \in S /\ \A j \in S : Map!Least(S) <= j
BY DEF Bounded, Map!Least

\* One more key returned.
LEMMA ReturnsKey ==
  ASSUME visitedKeys \in Seq(Keys), NEW k \in Keys,
         visitedKeys' = Append(visitedKeys, k)
  PROVE  /\ visitedKeys' \in Seq(Keys)
         /\ Map!Range(visitedKeys)' = Map!Range(visitedKeys) \cup {k}
         /\ DOMAIN visitedKeys' = DOMAIN visitedKeys \cup {Len(visitedKeys) + 1}
         /\ \A i \in DOMAIN visitedKeys :
              visitedKeys'[i] = visitedKeys[i] /\ i < Len(visitedKeys) + 1
         /\ visitedKeys'[Len(visitedKeys) + 1] = k
<1>1. /\ DOMAIN visitedKeys = 1 .. Len(visitedKeys) /\ Len(visitedKeys) \in Nat
      /\ DOMAIN visitedKeys' = 1 .. Len(visitedKeys) + 1
      /\ visitedKeys' \in Seq(Keys)
      /\ visitedKeys'[Len(visitedKeys) + 1] = k
      /\ \A i \in 1 .. Len(visitedKeys) : visitedKeys'[i] = visitedKeys[i]
  OBVIOUS
<1>2. DOMAIN visitedKeys' = DOMAIN visitedKeys \cup {Len(visitedKeys) + 1}
  BY <1>1
<1>3. Map!Range(visitedKeys)' = Map!Range(visitedKeys) \cup {k}
  BY <1>1, <1>2 DEF Map!Range
<1> QED
  BY <1>1, <1>2, <1>3

\* The others change the map: a key that leaves it does not stay.
LEMMA MapChanges ==
  ASSUME Keys \subseteq Int, MapIInv,
         \/ \E key \in Keys, element \in Elements :
              \/ Map!Insert(key, element)
              \/ \E always \in BOOLEAN : Map!Replace(key, element, always)
         \/ \E key \in Keys : Map!Remove(key)
         \/ Map!Clear
  PROVE  MapIInv'
<1>1. UNCHANGED <<visitedKeys, keyIteration, currentKey>> /\ keptKeys' \subseteq keptKeys
  BY DEF Map!Insert, Map!Replace, Map!Remove, Map!Clear, Map!walk
<1>2. /\ DOMAIN mMap' \subseteq Keys
      /\ \A key \in DOMAIN mMap' : mMap'[key] \in Elements
      /\ Bounded(DOMAIN mMap')
      /\ keptKeys' \subseteq DOMAIN mMap'
  <2>1. CASE \E key \in Keys, element \in Elements :
               \/ Map!Insert(key, element)
               \/ \E always \in BOOLEAN : Map!Replace(key, element, always)
    <3>1. PICK key \in Keys, element \in Elements :
            mMap' = Map!With(key, element) /\ keptKeys' = keptKeys
      BY <2>1 DEF Map!Insert, Map!Replace
    <3>2. /\ DOMAIN mMap' = DOMAIN mMap \cup {key}
          /\ \A k \in DOMAIN mMap' : mMap'[k] = IF k = key THEN element ELSE mMap[k]
      BY <3>1 DEF Map!With
    <3>3. Bounded(DOMAIN mMap \cup {key})
      BY BoundedMore DEF MapIInv, Map!TypeOK
    <3> QED
      BY <3>1, <3>2, <3>3 DEF MapIInv, Map!TypeOK, NonePassedBy
  <2>2. CASE \E key \in Keys : Map!Remove(key)
    <3>1. PICK key \in Keys : Map!Remove(key)
      BY <2>2
    <3>2. /\ DOMAIN mMap' = DOMAIN mMap \ {key}
          /\ \A k \in DOMAIN mMap' : mMap'[k] = mMap[k]
      BY <3>1 DEF Map!Remove, Map!Restrict
    <3> QED
      BY <3>1, <3>2 DEF Map!Remove, MapIInv, Map!TypeOK, NonePassedBy, Bounded
  <2>3. CASE Map!Clear
    BY <2>3 DEF Map!Clear, Bounded
  <2> QED
    BY <2>1, <2>2, <2>3
<1>3. Map!TypeOK'
  BY <1>1, <1>2 DEF MapIInv, Map!TypeOK
<1>4. Ascending'
  BY <1>1 DEF MapIInv, Ascending
<1>5. NonePassedBy'
  BY <1>1, <1>2 DEF MapIInv, NonePassedBy, Map!Range
<1>6. Bounded(DOMAIN mMap)'
  BY <1>2 DEF Bounded
<1> QED
  BY <1>3, <1>4, <1>5, <1>6 DEF MapIInv

\* The iteration begins at the least key.
LEMMA MapGetFirstKeeps ==
  ASSUME Keys \subseteq Int, MapIInv, Map!GetFirst
  PROVE  MapIInv'
<1>1. CASE DOMAIN mMap = {}
  <2>1. visitedKeys' \in Seq(Keys) /\ DOMAIN visitedKeys' = {}
    BY <1>1 DEF Map!GetFirst
  <2> QED
    BY <1>1, <2>1 DEF Map!GetFirst, MapIInv, Map!TypeOK, Bounded, Ascending, NonePassedBy
<1>2. CASE DOMAIN mMap # {}
  <2> DEFINE k == Map!Least(DOMAIN mMap)
  <2>1. k \in DOMAIN mMap /\ k \in Keys /\ \A j \in DOMAIN mMap : k <= j
    BY <1>2, LeastIs DEF MapIInv, Map!TypeOK
  <2>2. /\ keyIteration' = "going" /\ currentKey' = k /\ visitedKeys' = <<k>>
        /\ keptKeys' = DOMAIN mMap /\ mMap' = mMap
    BY <1>2 DEF Map!GetFirst
  <2> HIDE DEF k
  <2>3. /\ visitedKeys' \in Seq(Keys) /\ DOMAIN visitedKeys' = {1}
        /\ visitedKeys'[1] = k /\ Map!Range(visitedKeys)' = {k}
    BY <2>1, <2>2 DEF Map!Range
  <2>4. \A j \in DOMAIN mMap : j # k => k < j
    BY <2>1 DEF MapIInv, Map!TypeOK
  <2>5. Map!TypeOK'
    BY <2>1, <2>2, <2>3 DEF MapIInv, Map!TypeOK
  <2>6. Ascending'
    BY <2>1, <2>2, <2>3 DEF Ascending
  <2>7. NonePassedBy'
    BY <2>2, <2>3, <2>4 DEF NonePassedBy
  <2> QED
    BY <2>2, <2>5, <2>6, <2>7 DEF MapIInv, Bounded
<1> QED
  BY <1>1, <1>2

\* The iteration goes on with the least key after the current one.
LEMMA MapGetNextKeeps ==
  ASSUME Keys \subseteq Int, MapIInv, Map!GetNext
  PROVE  MapIInv'
<1>1. mMap' = mMap /\ keptKeys' = keptKeys /\ Map!TypeOK /\ currentKey \in Keys
  BY DEF Map!GetNext, MapIInv, Ascending
<1>2. CASE Map!In(currentKey) /\ Map!Following # {}
  <2> DEFINE k == Map!Least(Map!Following)
  <2>1. /\ k \in DOMAIN mMap /\ k \in Keys /\ currentKey < k
        /\ \A j \in DOMAIN mMap : j > currentKey => k <= j
    BY <1>1, <1>2, LeastIs DEF MapIInv, Map!TypeOK, Map!Following
  <2>2. /\ keyIteration = "going" /\ keyIteration' = "going" /\ currentKey' = k
        /\ visitedKeys' = Append(visitedKeys, k)
    BY <1>2 DEF Map!GetNext
  <2> HIDE DEF k
  <2>3. /\ visitedKeys' \in Seq(Keys)
        /\ Map!Range(visitedKeys)' = Map!Range(visitedKeys) \cup {k}
        /\ DOMAIN visitedKeys' = DOMAIN visitedKeys \cup {Len(visitedKeys) + 1}
        /\ \A i \in DOMAIN visitedKeys :
             visitedKeys'[i] = visitedKeys[i] /\ i < Len(visitedKeys) + 1
        /\ visitedKeys'[Len(visitedKeys) + 1] = k
    BY <1>1, <2>1, <2>2, ReturnsKey DEF Map!TypeOK
  <2>4. Map!TypeOK'
    BY <1>1, <2>1, <2>2, <2>3 DEF Map!TypeOK
  <2>5. Ascending'
    <3>1. \A i \in DOMAIN visitedKeys : i \in Nat /\ visitedKeys[i] \in Int
      <4>1. visitedKeys \in Seq(Keys)
        BY <1>1 DEF Map!TypeOK
      <4>2. \A i \in DOMAIN visitedKeys : i \in Nat /\ visitedKeys[i] \in Keys
        BY <4>1
      <4> QED
        BY <4>2
    <3>2. \A i \in DOMAIN visitedKeys : visitedKeys[i] < k
      BY <1>1, <2>1, <2>2, <3>1 DEF MapIInv, Ascending
    <3>3. \A i, j \in DOMAIN visitedKeys' : i < j => visitedKeys'[i] < visitedKeys'[j]
      <4> DEFINE n == Len(visitedKeys) + 1
      <4>1. n \in Nat
        BY <1>1 DEF Map!TypeOK
      <4>2. \A i, j \in DOMAIN visitedKeys : i < j => visitedKeys[i] < visitedKeys[j]
        BY DEF MapIInv, Ascending
      <4>3. \A i \in DOMAIN visitedKeys : i < n /\ ~(n < i)
        BY <2>3, <3>1, <4>1
      <4> HIDE DEF n
      <4> QED
        BY <2>3, <3>2, <4>1, <4>2, <4>3 DEF n
    <3>4. \A i \in DOMAIN visitedKeys' : visitedKeys'[i] <= k
      BY <2>1, <2>3, <3>1, <3>2
    <3> QED
      BY <2>1, <2>2, <3>3, <3>4 DEF Ascending
  <2>6. NonePassedBy'
    <3>1. \A j \in keptKeys \ Map!Range(visitedKeys) : j = k \/ k < j
      BY <1>1, <2>1, <2>2 DEF MapIInv, NonePassedBy, Map!TypeOK
    <3> QED
      BY <1>1, <2>2, <2>3, <3>1 DEF MapIInv, NonePassedBy
  <2> QED
    BY <1>1, <2>4, <2>5, <2>6 DEF MapIInv, Bounded
<1>3. CASE ~(Map!In(currentKey) /\ Map!Following # {})
  <2>1. /\ keyIteration = "going" /\ UNCHANGED <<currentKey, visitedKeys>>
        /\ keyIteration' = IF Map!In(currentKey) THEN "complete" ELSE "cut"
    BY <1>3 DEF Map!GetNext
  <2>2. Map!TypeOK'
    BY <1>1, <2>1 DEF Map!TypeOK
  <2>3. Map!In(currentKey) => keptKeys \subseteq Map!Range(visitedKeys)
    BY <1>1, <1>3, <2>1 DEF MapIInv, NonePassedBy, Map!Following, Map!TypeOK
  <2>4. NonePassedBy'
    BY <1>1, <2>1, <2>3 DEF MapIInv, NonePassedBy, Map!In, Map!Range
  <2> QED
    BY <1>1, <2>1, <2>2, <2>4 DEF MapIInv, Bounded, Ascending
<1> QED
  BY <1>2, <1>3

\* The invariant of the map holds in every reachable state.
LEMMA MapInvariance == PartsSpec => []MapIInv
<1>1. PartsInit => MapIInv
  BY MapInitIInv DEF PartsInit
<1>2. MapIInv /\ [Map!Next]_(Map!vars) => MapIInv'
  <2>1. Keys \subseteq Int
    BY PartsAssumption DEF Map!Parameters
  <2>2. MapIInv /\ UNCHANGED Map!vars => MapIInv'
    BY DEF Map!vars, Map!walk, MapIInv, Map!TypeOK, Bounded, Ascending, NonePassedBy,
           Map!Range
  <2> QED
    BY <2>1, <2>2, MapChanges, MapGetFirstKeeps, MapGetNextKeeps DEF Map!Next
<1> QED
  BY <1>1, <1>2, MapSteps, PTL DEF PartsSpec

\* What is checked follows.
LEMMA MapComplete == MapIInv => Map!MapIterationComplete
BY DEF MapIInv, Map!MapIterationComplete, Ascending, NonePassedBy

-----------------------------------------------------------------------------
\* The list.

\* The list has this instance; the iteration has returned it.
Listed(k)   == \E i \in DOMAIN mList : mList[i] = k
Returned(k) == \E i \in DOMAIN visited : visited[i] = k

\* The instances that stay are in the list; if none was there twice, each is there
\* once.
Distinct ==
  /\ \A k \in kept : Listed(k)
  /\ "twice" \notin disturbances =>
       \A i, j \in DOMAIN mList : mList[i] = mList[j] => i = j

\* An instance that stays is returned once, and is then not after the current one,
\* so that it will not come again.
OnceReturned ==
  /\ \A k \in kept : \A i, j \in DOMAIN visited :
       visited[i] = k /\ visited[j] = k => i = j
  /\ iteration = "going" =>
       \A i, j \in DOMAIN mList :
         mList[i] = current /\ mList[j] \in kept /\ Returned(mList[j]) => j <= i

\* As long as the current one is in its place, the ones before it were returned.
NoneSkipped ==
  "moved" \notin disturbances =>
    /\ iteration = "going" =>
         \A i, j \in DOMAIN mList :
           mList[i] = current /\ mList[j] \in kept /\ j <= i => Returned(mList[j])
    /\ iteration = "complete" => \A k \in kept : Returned(k)

\* The inductive invariant.
ListIInv ==
  /\ List!TypeOK
  /\ Distinct
  /\ "twice" \notin disturbances =>
       /\ OnceReturned /\ NoneSkipped
       /\ iteration = "cut" => current \notin kept

\* What the operators of the list say.
LEMMA ListOperators ==
  ASSUME mList \in Seq(Instances)
  PROVE  /\ \A x : List!Lists!Contains(mList, x) <=> Listed(x)
         /\ \A x : x \in List!Lists!ToSet(mList) <=> Listed(x)
         /\ List!Lists!IsInjective(mList) <=>
              \A i, j \in DOMAIN mList : mList[i] = mList[j] => i = j
BY DEF List!Lists!Contains, List!Lists!ToSet, List!Lists!IsInjective, Listed

\* ListIInv holds of the empty list.
LEMMA ListInitIInv == ASSUME List!Init PROVE ListIInv
<1>1. DOMAIN mList = {} /\ DOMAIN visited = {}
  BY DEF List!Init
<1>2. mList \in Seq(Instances) /\ visited \in Seq(Instances)
  BY DEF List!Init
<1> QED
  BY <1>1, <1>2 DEF List!Init, ListIInv, List!TypeOK, Distinct, OnceReturned, NoneSkipped

\* A removal takes one occurrence out and closes the gap.
LEMMA RemovedAt ==
  ASSUME NEW S, NEW l \in Seq(S), NEW k \in 1 .. Len(l)
  PROVE  LET a == List!Lists!RemoveAt(l, k) IN
         /\ a \in Seq(S)
         /\ Len(a) = Len(l) - 1
         /\ \A i \in 1 .. Len(l) - 1 : a[i] = IF i < k THEN l[i] ELSE l[i + 1]
<1> DEFINE u == SubSeq(l, 1, k - 1)
           v == SubSeq(l, k + 1, Len(l))
           a == u \o v
<1>1. Len(l) \in Nat /\ k \in Nat /\ k - 1 \in 0 .. Len(l)
  OBVIOUS
<1>2. /\ u \in Seq(S) /\ Len(u) = k - 1
      /\ \A i \in 1 .. k - 1 : u[i] = l[i]
      /\ v \in Seq(S) /\ Len(v) = Len(l) - k
      /\ \A i \in 1 .. Len(l) - k : v[i] = l[i + k]
  BY <1>1
<1> HIDE DEF u, v
<1>3. /\ a \in Seq(S) /\ Len(a) = Len(l) - 1
      /\ \A i \in 1 .. Len(l) - 1 : a[i] = IF i < k THEN u[i] ELSE v[i - (k - 1)]
  <2>1. /\ a \in Seq(S) /\ Len(a) = Len(u) + Len(v)
        /\ \A i \in 1 .. Len(u) + Len(v) : a[i] = IF i <= Len(u) THEN u[i] ELSE v[i - Len(u)]
    BY <1>2, ConcatProperties
  <2>2. Len(u) + Len(v) = Len(l) - 1 /\ Len(u) = k - 1
    BY <1>1, <1>2
  <2>3. \A i \in 1 .. Len(l) - 1 : i <= k - 1 <=> i < k
    BY <1>1
  <2> HIDE DEF a
  <2> QED
    BY <2>1, <2>2, <2>3
<1>4. \A i \in 1 .. Len(l) - 1 : ~(i < k) => v[i - (k - 1)] = l[i + 1]
  <2> TAKE i \in 1 .. Len(l) - 1
  <2>1. ~(i < k) => i - (k - 1) \in 1 .. Len(l) - k /\ (i - (k - 1)) + k = i + 1
    BY <1>1
  <2> QED
    BY <1>2, <2>1
<1>5. a = List!Lists!RemoveAt(l, k)
  BY DEF List!Lists!RemoveAt, u, v
<1> HIDE DEF a
<1>6. \A i \in 1 .. Len(l) - 1 : a[i] = IF i < k THEN l[i] ELSE l[i + 1]
  BY <1>1, <1>2, <1>3, <1>4
<1> QED
  BY <1>3, <1>5, <1>6

\* RemoveFirst removes at the first occurrence.
LEMMA FirstRemoved ==
  ASSUME mList \in Seq(Instances), NEW x, Listed(x)
  PROVE  \E k \in 1 .. Len(mList) :
           /\ mList[k] = x
           /\ List!Lists!RemoveFirst(mList, x) = List!Lists!RemoveAt(mList, k)
<1> DEFINE I == {i \in 1 .. Len(mList) : mList[i] = x}
           k == List!Lists!Min(I)
<1>1. Len(mList) \in Nat /\ DOMAIN mList = 1 .. Len(mList) /\ I \subseteq Nat /\ I # {}
  BY DEF Listed
<1>2. k \in I
  <2>1. \E i \in I : \A j \in I : ~(<<j, i>> \in OpToRel(<, Nat))
    BY <1>1, WFMin, NatLessThanWellFounded
  <2>2. \A i, j \in Nat : i < j => <<i, j>> \in OpToRel(<, Nat)
    BY DEF OpToRel
  <2>3. \A i, j \in Nat : ~(i < j) => j <= i
    OBVIOUS
  <2>4. \E i \in I : \A j \in I : i <= j
    BY <1>1, <2>1, <2>2, <2>3, Zenon
  <2> QED
    BY <2>4, Zenon DEF List!Lists!Min
<1>3. List!Lists!RemoveFirst(mList, x) = List!Lists!RemoveAt(mList, k)
  BY <1>1 DEF List!Lists!RemoveFirst, List!Lists!SelectInSeq
<1>4. k \in 1 .. Len(mList) /\ mList[k] = x
  BY <1>2
<1> HIDE DEF k
<1> QED
  BY <1>3, <1>4

\* A new instance is the last one; the current one is added again only as "moved".
LEMMA AddKeeps ==
  ASSUME ListIInv, NEW x \in Instances, List!Add(x)
  PROVE  ListIInv'
<1> DEFINE n == Len(mList) + 1
<1>1. /\ mList \in Seq(Instances) /\ n \in Nat
      /\ mList' \in Seq(Instances)
      /\ DOMAIN mList' = DOMAIN mList \cup {n}
      /\ \A i \in DOMAIN mList : i < n /\ i \in Nat /\ mList'[i] = mList[i]
      /\ mList'[n] = x
  BY DEF ListIInv, List!TypeOK, List!Add
<1>2. /\ UNCHANGED <<iteration, current, visited, kept>>
      /\ disturbances \subseteq disturbances'
      /\ disturbances' \subseteq {"twice", "moved"}
      /\ "twice" \notin disturbances' => ~Listed(x)
      /\ "moved" \notin disturbances' => x # current \/ x \in kept
  BY <1>1, ListOperators DEF List!Add, List!walk, ListIInv, List!TypeOK
<1> HIDE DEF n
<1>3. List!TypeOK'
  BY <1>1, <1>2 DEF ListIInv, List!TypeOK
<1>4. \A k : Listed(k) => Listed(k)'
  BY <1>1 DEF Listed
<1>5. \A k : Returned(k)' <=> Returned(k)
  BY <1>2 DEF Returned
<1>6. Distinct'
  <2>1. "twice" \notin disturbances' => \A i \in DOMAIN mList : mList[i] # x
    BY <1>2 DEF Listed
  <2> QED
    BY <1>1, <1>2, <1>4, <2>1 DEF ListIInv, Distinct
<1>7. ASSUME "twice" \notin disturbances'
      PROVE  OnceReturned' /\ NoneSkipped' /\ (iteration' = "cut" => current' \notin kept')
  <2>1. /\ OnceReturned /\ NoneSkipped
        /\ iteration = "cut" => current \notin kept
        /\ x \notin kept
    BY <1>2, <1>7 DEF ListIInv, Distinct
  <2>2. OnceReturned'
    BY <1>1, <1>2, <1>5, <2>1 DEF OnceReturned
  <2>3. NoneSkipped'
    BY <1>1, <1>2, <1>5, <2>1 DEF NoneSkipped
  <2> QED
    BY <1>2, <2>1, <2>2, <2>3
<1> QED
  BY <1>3, <1>6, <1>7 DEF ListIInv

\* A removal leaves the others in their order.
LEMMA RemoveKeeps ==
  ASSUME ListIInv, NEW x \in Instances, List!Remove(x)
  PROVE  ListIInv'
<1>1. mList \in Seq(Instances) /\ DOMAIN mList = 1 .. Len(mList) /\ Len(mList) \in Nat
  BY DEF ListIInv, List!TypeOK
<1>2. /\ Listed(x)
      /\ mList' = List!Lists!RemoveFirst(mList, x)
      /\ kept' = kept \ {x}
      /\ UNCHANGED <<iteration, current, visited, disturbances>>
  BY <1>1, ListOperators DEF List!Remove, List!walk
<1>3. PICK k \in DOMAIN mList :
        /\ mList[k] = x
        /\ mList' \in Seq(Instances)
        /\ DOMAIN mList' = 1 .. Len(mList) - 1
        /\ \A i \in DOMAIN mList' : mList'[i] = IF i < k THEN mList[i] ELSE mList[i + 1]
  <2>1. PICK k \in 1 .. Len(mList) :
          mList[k] = x /\ mList' = List!Lists!RemoveAt(mList, k)
    BY <1>1, <1>2, FirstRemoved
  <2>2. /\ mList' \in Seq(Instances) /\ Len(mList') = Len(mList) - 1
        /\ \A i \in 1 .. Len(mList) - 1 :
             mList'[i] = IF i < k THEN mList[i] ELSE mList[i + 1]
    BY <1>1, <2>1, RemovedAt
  <2>3. DOMAIN mList' = 1 .. Len(mList) - 1
    BY <2>2
  <2> QED
    BY <1>1, <2>1, <2>2, <2>3
<1> DEFINE From(i) == IF i < k THEN i ELSE i + 1
<1>4. /\ \A i \in DOMAIN mList' : From(i) \in DOMAIN mList /\ mList'[i] = mList[From(i)]
      /\ \A i, j \in DOMAIN mList' : From(i) <= From(j) <=> i <= j
      /\ \A i, j \in DOMAIN mList' : From(i) = From(j) => i = j
      /\ \A j \in DOMAIN mList : j # k => \E i \in DOMAIN mList' : From(i) = j
  <2>1. k \in 1 .. Len(mList)
    BY <1>1
  <2>2. \A i \in DOMAIN mList' : i \in Nat /\ From(i) \in DOMAIN mList
    BY <1>1, <1>3, <2>1
  <2>3. \A i \in DOMAIN mList' : mList'[i] = mList[From(i)]
    BY <1>3
  <2>4. \A j \in DOMAIN mList : j # k => \E i \in DOMAIN mList' : From(i) = j
    <3> SUFFICES ASSUME NEW j \in DOMAIN mList, j # k
                 PROVE  \E i \in DOMAIN mList' : From(i) = j
      OBVIOUS
    <3>1. CASE j < k
      <4>1. j \in DOMAIN mList' /\ From(j) = j
        BY <1>1, <1>3, <2>1, <3>1
      <4> QED
        BY <4>1
    <3>2. CASE ~(j < k)
      <4>1. j - 1 \in DOMAIN mList' /\ From(j - 1) = j
        BY <1>1, <1>3, <2>1, <3>2
      <4> QED
        BY <4>1
    <3> QED
      BY <3>1, <3>2
  <2> QED
    BY <2>1, <2>2, <2>3, <2>4
<1> HIDE DEF From
<1>5. List!TypeOK'
  BY <1>2, <1>3 DEF ListIInv, List!TypeOK
<1>6. \A m \in kept' : Listed(m)'
  <2> SUFFICES ASSUME NEW m \in kept' PROVE Listed(m)'
    OBVIOUS
  <2>1. PICK j \in DOMAIN mList : mList[j] = m
    BY <1>2 DEF ListIInv, Distinct, Listed
  <2>2. j # k
    BY <1>2, <1>3, <2>1
  <2> QED
    BY <1>4, <2>1, <2>2 DEF Listed
<1>7. \A m : Returned(m)' <=> Returned(m)
  BY <1>2 DEF Returned
<1>8. Distinct'
  BY <1>2, <1>4, <1>6 DEF ListIInv, Distinct
<1>9. ASSUME "twice" \notin disturbances'
      PROVE  OnceReturned' /\ NoneSkipped' /\ (iteration' = "cut" => current' \notin kept')
  <2>1. /\ OnceReturned /\ NoneSkipped
        /\ iteration = "cut" => current \notin kept
    BY <1>2, <1>9 DEF ListIInv
  <2>2. OnceReturned'
    BY <1>2, <1>4, <1>7, <2>1 DEF OnceReturned
  <2>3. NoneSkipped'
    BY <1>2, <1>4, <1>7, <2>1 DEF NoneSkipped
  <2> QED
    BY <1>2, <2>1, <2>2, <2>3
<1> QED
  BY <1>5, <1>8, <1>9 DEF ListIInv

\* The iteration begins at the head, and everything listed is to be returned.
LEMMA ListGetFirstKeeps == ASSUME ListIInv, List!GetFirst PROVE ListIInv'
<1>1. mList \in Seq(Instances) /\ DOMAIN mList = 1 .. Len(mList) /\ Len(mList) \in Nat
  BY DEF ListIInv, List!TypeOK
<1>2. /\ mList' = mList
      /\ \A k : k \in kept' <=> Listed(k)
      /\ disturbances' \subseteq {"twice"}
      /\ "twice" \notin disturbances' =>
           \A i, j \in DOMAIN mList : mList[i] = mList[j] => i = j
  BY <1>1, ListOperators DEF List!GetFirst
<1>3. Distinct'
  BY <1>2 DEF Distinct, Listed
<1>4. CASE mList = <<>>
  <2>1. /\ iteration' = "complete" /\ current' = NULL
        /\ visited' \in Seq(Instances) /\ DOMAIN visited' = {}
    BY <1>4 DEF List!GetFirst
  <2>2. DOMAIN mList = {} /\ kept' = {}
    BY <1>2, <1>4 DEF Listed
  <2> QED
    BY <1>1, <1>2, <1>3, <2>1, <2>2
       DEF ListIInv, List!TypeOK, OnceReturned, NoneSkipped
<1>5. CASE mList # <<>>
  <2>1. /\ 1 \in DOMAIN mList /\ mList[1] \in Instances
        /\ iteration' = "going" /\ current' = mList[1]
        /\ visited' \in Seq(Instances) /\ DOMAIN visited' = {1} /\ visited'[1] = mList[1]
    <3>1. Len(mList) > 0 /\ 1 \in DOMAIN mList /\ mList[1] \in Instances
      BY <1>1, <1>5
    <3>2. Head(mList) = mList[1]
      BY <1>1, <1>5
    <3>3. iteration' = "going" /\ current' = mList[1] /\ visited' = <<mList[1]>>
      BY <1>5, <3>2 DEF List!GetFirst
    <3> DEFINE h == mList[1]
    <3> HIDE DEF h
    <3>4. h \in Instances => <<h>> \in Seq(Instances) /\ DOMAIN <<h>> = {1} /\ <<h>>[1] = h
      OBVIOUS
    <3> QED
      BY <3>1, <3>3, <3>4 DEF h
  <2>2. \A k : Returned(k)' <=> k = mList[1]
    BY <2>1 DEF Returned
  <2>3. kept' \subseteq Instances
    BY <1>1, <1>2 DEF Listed
  <2>4. List!TypeOK'
    BY <1>1, <1>2, <2>1, <2>3 DEF List!TypeOK
  <2>5. ASSUME "twice" \notin disturbances' PROVE OnceReturned' /\ NoneSkipped'
    <3>1. \A i \in DOMAIN mList : mList[i] = mList[1] => i = 1
      BY <1>2, <2>1, <2>5
    <3>2. \A i \in DOMAIN mList : 1 <= i /\ (i <= 1 => i = 1)
      BY <1>1
    <3> QED
      BY <1>2, <2>1, <2>2, <3>1, <3>2 DEF OnceReturned, NoneSkipped
  <2> QED
    BY <1>3, <2>1, <2>4, <2>5 DEF ListIInv
<1> QED
  BY <1>4, <1>5

\* The place of the current instance, if it is in the list once.
LEMMA PositionIs ==
  ASSUME mList \in Seq(Instances), NEW x,
         \A i, j \in DOMAIN mList : mList[i] = mList[j] => i = j
  PROVE  /\ ~Listed(x) => List!Position(x) = 0
         /\ \A i \in DOMAIN mList : mList[i] = x => List!Position(x) = i
<1>1. ~Listed(x) => List!Position(x) = 0
  BY ListOperators DEF List!Position
<1>2. ASSUME NEW i \in DOMAIN mList, mList[i] = x PROVE List!Position(x) = i
  <2>1. i \in DOMAIN mList /\ mList[i] = x /\ \A j \in 1 .. i - 1 : mList[j] # x
    BY <1>2
  <2>2. Listed(x)
    BY <1>2 DEF Listed
  <2>3. \A m \in DOMAIN mList : mList[m] = x => m = i
    BY <1>2
  <2> QED
    BY <2>1, <2>2, <2>3, ListOperators DEF List!Position
<1> QED
  BY <1>1, <1>2

\* The iteration goes on with the instance after the current one.
LEMMA ListGetNextKeeps == ASSUME ListIInv, List!GetNext PROVE ListIInv'
<1> DEFINE at == List!Position(current)
           n  == Len(visited) + 1
<1>1. /\ mList \in Seq(Instances) /\ DOMAIN mList = 1 .. Len(mList) /\ Len(mList) \in Nat
      /\ visited \in Seq(Instances) /\ n \in Nat
      /\ iteration = "going" /\ UNCHANGED <<mList, kept, disturbances>>
  BY DEF ListIInv, List!TypeOK, List!GetNext
<1>2. Distinct'
  BY <1>1 DEF ListIInv, Distinct, Listed
<1>3. CASE at \in 1 .. Len(mList) - 1
  <2>1. PICK i \in DOMAIN mList : i = at /\ i + 1 \in DOMAIN mList
    BY <1>1, <1>3
  <2>2. /\ iteration' = "going" /\ current' = mList[i + 1]
        /\ mList[i + 1] \in Instances
        /\ visited' = Append(visited, mList[i + 1])
    BY <1>1, <1>3, <2>1 DEF List!GetNext
  <2>3. /\ visited' \in Seq(Instances)
        /\ DOMAIN visited' = DOMAIN visited \cup {n}
        /\ \A j \in DOMAIN visited : visited'[j] = visited[j]
        /\ visited'[n] = mList[i + 1]
    BY <1>1, <2>2
  <2>4. List!TypeOK'
    BY <1>1, <2>2, <2>3 DEF ListIInv, List!TypeOK
  <2>5. \A k : Returned(k)' <=> Returned(k) \/ k = mList[i + 1]
    BY <2>3 DEF Returned
  <2>6. ASSUME "twice" \notin disturbances PROVE OnceReturned' /\ NoneSkipped'
    <3>1. \A j, l \in DOMAIN mList : mList[j] = mList[l] => j = l
      BY <2>6 DEF ListIInv, Distinct
    <3>2. mList[i] = current
      <4>1. at # 0
        BY <1>3
      <4>2. Listed(current)
        BY <1>1, <3>1, <4>1, PositionIs
      <4> QED
        BY <1>1, <2>1, <3>1, <4>2, PositionIs DEF Listed
    <3>3. OnceReturned /\ NoneSkipped
      BY <2>6 DEF ListIInv
    <3>4. mList[i + 1] \in kept => ~Returned(mList[i + 1])
      <4>1. ~(i + 1 <= i)
        BY <1>1
      <4> QED
        BY <1>1, <2>1, <3>2, <3>3, <4>1 DEF OnceReturned
    <3>5. \A j \in DOMAIN mList : j <= i + 1 <=> j <= i \/ j = i + 1
      BY <1>1
    <3>6. OnceReturned'
      <4>1. \A k \in kept : \A j, l \in DOMAIN visited' :
              visited'[j] = k /\ visited'[l] = k => j = l
        BY <2>3, <3>3, <3>4 DEF OnceReturned, Returned
      <4>2. \A j, l \in DOMAIN mList :
              mList[j] = mList[i + 1] /\ mList[l] \in kept
                /\ (Returned(mList[l]) \/ mList[l] = mList[i + 1]) => l <= j
        BY <1>1, <2>1, <3>1, <3>2, <3>3, <3>5 DEF OnceReturned
      <4> QED
        BY <1>1, <2>2, <2>5, <4>1, <4>2 DEF OnceReturned
    <3>7. NoneSkipped'
      BY <1>1, <2>1, <2>2, <2>5, <3>1, <3>2, <3>3, <3>5 DEF NoneSkipped
    <3> QED
      BY <3>6, <3>7
  <2> QED
    BY <1>1, <1>2, <2>2, <2>4, <2>6 DEF ListIInv
<1>4. CASE at \notin 1 .. Len(mList) - 1
  <2>1. /\ UNCHANGED <<current, visited>>
        /\ iteration' = IF at = 0 THEN "cut" ELSE "complete"
    BY <1>4 DEF List!GetNext
  <2>2. List!TypeOK'
    BY <1>1, <2>1 DEF ListIInv, List!TypeOK
  <2>3. \A k : Returned(k)' <=> Returned(k)
    BY <2>1 DEF Returned
  <2>4. ASSUME "twice" \notin disturbances
        PROVE  /\ at = 0 => current \notin kept
               /\ at # 0 /\ "moved" \notin disturbances => \A k \in kept : Returned(k)
    <3>1. \A j, l \in DOMAIN mList : mList[j] = mList[l] => j = l
      BY <2>4 DEF ListIInv, Distinct
    <3>2. at = 0 => ~Listed(current)
      BY <1>1, <3>1, PositionIs DEF Listed
    <3>3. at # 0 => at \in DOMAIN mList /\ mList[at] = current
      BY <1>1, <3>1, PositionIs DEF Listed
    <3>4. at # 0 => \A j \in DOMAIN mList : j <= at
      BY <1>1, <1>4, <3>3
    <3> HIDE DEF at
    <3> QED
      BY <1>1, <2>4, <3>2, <3>3, <3>4 DEF ListIInv, Distinct, NoneSkipped, Listed
  <2> HIDE DEF at
  <2> QED
    BY <1>1, <1>2, <2>1, <2>2, <2>3, <2>4 DEF ListIInv, OnceReturned, NoneSkipped
<1> QED
  BY <1>3, <1>4

\* The invariant of the list holds in every reachable state.
LEMMA ListInvariance == PartsSpec => []ListIInv
<1>1. PartsInit => ListIInv
  BY ListInitIInv DEF PartsInit
<1>2. ListIInv /\ [List!Next]_(List!vars) => ListIInv'
  <2>1. ListIInv /\ UNCHANGED List!vars => ListIInv'
    BY DEF List!vars, List!walk, ListIInv, List!TypeOK, Distinct, OnceReturned,
           NoneSkipped, Listed, Returned
  <2> QED
    BY <2>1, AddKeeps, RemoveKeeps, ListGetFirstKeeps, ListGetNextKeeps DEF List!Next
<1> QED
  BY <1>1, <1>2, ListSteps, PTL DEF PartsSpec

\* What is checked follows.
LEMMA ListComplete == ListIInv => List!ListIterationComplete
<1> SUFFICES ASSUME ListIInv, "twice" \notin disturbances, NEW k \in kept
             PROVE  /\ \A i, j \in List!Visits(k) : i = j
                    /\ "moved" \notin disturbances /\ iteration = "complete" =>
                         List!Visits(k) # {}
  BY DEF ListIInv, List!ListIterationComplete
<1> QED
  BY DEF ListIInv, OnceReturned, NoneSkipped, Returned, List!Visits

-----------------------------------------------------------------------------
\* The counted pointers: sequences of steps.

\* The steps there are.
PointerOps ==
  {<<op, x>> : op \in {"upcount", "downcount", "delete"}, x \in Pointer!Pointers}
  \cup {<<op, x, y>> : op \in {"set", "compare"}, x \in Pointer!Pointers,
                       y \in Pointer!Pointers \cup {NULL}}

\* The pointers that s will set or count first (the set Uncounted, of a sequence).
UncountedIn(s) ==
  {x \in Pointer!Pointers :
     \E i \in DOMAIN s :
       /\ s[i][1] \in {"set", "upcount", "delete"}
       /\ s[i][2] = x
       /\ \A j \in 1 .. i - 1 : s[j] # <<"downcount", x>>}

\* It is decided by the first step that counts or assigns the pointer.
LEMMA UncountedRest ==
  ASSUME NEW s \in Seq(PointerOps), s # <<>>, NEW x \in Pointer!Pointers
  PROVE  x \in UncountedIn(s) <=>
           \/ s[1][1] \in {"set", "upcount", "delete"} /\ s[1][2] = x
           \/ s[1] # <<"downcount", x>> /\ x \in UncountedIn(Tail(s))
<1> DEFINE r == Tail(s)
<1>1. /\ r \in Seq(PointerOps) /\ Len(r) = Len(s) - 1 /\ Len(s) \in Nat /\ Len(s) > 0
      /\ \A i \in 1 .. Len(s) - 1 : r[i] = s[i + 1]
      /\ DOMAIN s = 1 .. Len(s) /\ DOMAIN r = 1 .. Len(s) - 1
  OBVIOUS
<1> HIDE DEF r
<1>2. ASSUME x \in UncountedIn(s)
      PROVE  \/ s[1][1] \in {"set", "upcount", "delete"} /\ s[1][2] = x
             \/ s[1] # <<"downcount", x>> /\ x \in UncountedIn(r)
  <2>1. PICK i \in 1 .. Len(s) :
          /\ s[i][1] \in {"set", "upcount", "delete"}
          /\ s[i][2] = x
          /\ \A j \in 1 .. i - 1 : s[j] # <<"downcount", x>>
    BY <1>1, <1>2 DEF UncountedIn
  <2>2. CASE i # 1
    <3>1. i - 1 \in 1 .. Len(s) - 1 /\ r[i - 1] = s[i]
      BY <1>1, <2>2
    <3>2. 1 \in 1 .. i - 1
      BY <1>1, <2>2
    <3>3. \A j \in 1 .. (i - 1) - 1 : r[j] # <<"downcount", x>>
      <4> TAKE j \in 1 .. (i - 1) - 1
      <4>1. j + 1 \in 1 .. i - 1 /\ j \in 1 .. Len(s) - 1
        BY <1>1
      <4> QED
        BY <1>1, <2>1, <4>1
    <3> QED
      BY <1>1, <2>1, <3>1, <3>2, <3>3 DEF UncountedIn
  <2> QED
    BY <2>1, <2>2
<1>3. ASSUME s[1][1] \in {"set", "upcount", "delete"} /\ s[1][2] = x
      PROVE  x \in UncountedIn(s)
  <2>1. 1 \in DOMAIN s /\ \A j \in 1 .. 1 - 1 : FALSE
    BY <1>1
  <2> QED
    BY <1>3, <2>1 DEF UncountedIn
<1>4. ASSUME s[1] # <<"downcount", x>>, x \in UncountedIn(r)
      PROVE  x \in UncountedIn(s)
  <2>1. PICK i \in 1 .. Len(s) - 1 :
          /\ r[i][1] \in {"set", "upcount", "delete"}
          /\ r[i][2] = x
          /\ \A j \in 1 .. i - 1 : r[j] # <<"downcount", x>>
    BY <1>1, <1>4 DEF UncountedIn
  <2>2. i + 1 \in 1 .. Len(s) /\ r[i] = s[i + 1]
    BY <1>1
  <2>3. \A j \in 1 .. (i + 1) - 1 : s[j] # <<"downcount", x>>
    <3> TAKE j \in 1 .. (i + 1) - 1
    <3>1. CASE j = 1
      BY <1>4, <3>1
    <3>2. CASE j # 1
      <4>1. j - 1 \in 1 .. i - 1 /\ j - 1 \in 1 .. Len(s) - 1 /\ (j - 1) + 1 = j
        BY <1>1, <3>2
      <4> QED
        BY <1>1, <2>1, <4>1
    <3> QED
      BY <3>1, <3>2
  <2> QED
    BY <1>1, <2>1, <2>2, <2>3 DEF UncountedIn
<1> QED
  BY <1>2, <1>3, <1>4 DEF r

\* No steps, no uncounted pointers.
LEMMA UncountedInNone == UncountedIn(<<>>) = {}
BY DEF UncountedIn

-----------------------------------------------------------------------------
\* The steps of a call, from the last one to the first.
CopyPlan(t, x, y) ==
  << <<"set", t, NULL>>, <<"downcount", t>>, <<"upcount", x>>, <<"set", x, t>>,
     <<"downcount", x>>, <<"compare", x, t>>, <<"upcount", t>>, <<"set", t, y>> >>
NewPlan(t, x) ==
  << <<"set", t, NULL>>, <<"upcount", x>>, <<"set", x, t>>, <<"downcount", x>>,
     <<"compare", x, t>> >>
ReleasePlan(x) == << <<"set", x, NULL>>, <<"downcount", x>> >>
ConstructPlan(x, y) == << <<"upcount", x>>, <<"set", x, y>> >>

\* The first d steps delete objects, each once; the member of the last one to go may
\* still have to be released.
Destroys(s, d) ==
  /\ \A i \in 1 .. d :
       \E o \in Objects :
         \/ s[i] = <<"delete", o>>
         \/ i = 1 /\ d > 1 /\ s[1] = <<"downcount", o>> /\ s[2] = <<"delete", o>>
  /\ \A i, j \in 1 .. d : s[i] = s[j] => i = j

\* When they are done, the last k steps of the plan are left.
Follows(s, k, plan) ==
  /\ k \in 1 .. Len(plan) /\ k <= Len(s)
  /\ \A i \in 1 .. k : s[Len(s) + 1 - i] = plan[i]
  /\ Destroys(s, Len(s) - k)

\* What comes next.
LEMMA FollowsHead ==
  ASSUME NEW s \in Seq(PointerOps), NEW k, NEW plan, Len(plan) \in Nat,
         Follows(s, k, plan)
  PROVE  /\ s # <<>> /\ Len(s) \in Nat /\ k \in Nat
         /\ Len(s) # k =>
              /\ Len(s) > k
              /\ \E o \in Objects :
                   \/ s[1] = <<"delete", o>>
                   \/ s[1] = <<"downcount", o>> /\ s[2] = <<"delete", o>> /\ Len(s) - k > 1
         /\ Len(s) = k => s[1] = plan[k] /\ (k > 1 => s[2] = plan[k - 1])
<1>1. /\ k \in Nat /\ k >= 1 /\ Len(s) \in Nat /\ k <= Len(s)
      /\ \A i \in 1 .. k : s[Len(s) + 1 - i] = plan[i]
      /\ Destroys(s, Len(s) - k)
  BY DEF Follows
<1>2. ASSUME Len(s) # k
      PROVE  /\ Len(s) > k
             /\ \E o \in Objects :
                  \/ s[1] = <<"delete", o>>
                  \/ s[1] = <<"downcount", o>> /\ s[2] = <<"delete", o>> /\ Len(s) - k > 1
  <2>1. 1 \in 1 .. Len(s) - k /\ Len(s) > k
    BY <1>1, <1>2
  <2> QED
    BY <1>1, <2>1 DEF Destroys
<1>3. ASSUME Len(s) = k PROVE s[1] = plan[k] /\ (k > 1 => s[2] = plan[k - 1])
  <2>1. k \in 1 .. k /\ Len(s) + 1 - k = 1
    BY <1>1, <1>3
  <2>2. k > 1 => k - 1 \in 1 .. k /\ Len(s) + 1 - (k - 1) = 2
    BY <1>1, <1>3
  <2> QED
    BY <1>1, <2>1, <2>2
<1>4. s # <<>>
  BY <1>1
<1> QED
  BY <1>1, <1>2, <1>3, <1>4

\* The plan is followed when the first m steps are done or left out.
LEMMA FollowsOn ==
  ASSUME NEW s \in Seq(PointerOps), NEW k, NEW plan, Len(plan) \in Nat,
         Follows(s, k, plan),
         NEW r \in Seq(PointerOps), NEW m \in Nat, Len(r) = Len(s) - m,
         \A i \in 1 .. Len(r) : r[i] = s[i + m],
         m = 1 \/ Len(s) = k
  PROVE  /\ Len(s) # k => Follows(r, k, plan)
         /\ Len(s) = k /\ k > m => Follows(r, k - m, plan)
<1>1. /\ k \in Nat /\ k >= 1 /\ Len(s) \in Nat /\ k <= Len(s) /\ Len(r) \in Nat
      /\ k <= Len(plan)
      /\ \A i \in 1 .. k : s[Len(s) + 1 - i] = plan[i]
      /\ Destroys(s, Len(s) - k)
  BY DEF Follows
<1>2. ASSUME NEW i \in 1 .. k, i <= Len(r) PROVE r[Len(r) + 1 - i] = plan[i]
  <2>1. Len(r) + 1 - i \in 1 .. Len(r) /\ (Len(r) + 1 - i) + m = Len(s) + 1 - i
    BY <1>1, <1>2
  <2> QED
    BY <1>1, <2>1
<1>3. ASSUME Len(s) # k PROVE Follows(r, k, plan)
  <2>1. m = 1 /\ k <= Len(r) /\ Len(r) - k = (Len(s) - k) - 1
    BY <1>1, <1>3
  <2> DEFINE d == Len(s) - k
  <2>2. d \in Nat /\ d >= 1 /\ d - 1 <= Len(r)
    BY <1>1, <1>3
  <2>3. /\ \A i \in 1 .. d - 1 : r[i] = s[i + 1] /\ i + 1 \in 1 .. d /\ i + 1 # 1
        /\ \A i, j \in 1 .. d - 1 : i + 1 = j + 1 => i = j
    BY <1>1, <2>1, <2>2
  <2> HIDE DEF d
  <2>4. Destroys(s, d)
    BY <1>1 DEF d
  <2>5. \A i \in 1 .. d - 1 : \E o \in Objects : r[i] = <<"delete", o>>
    BY <2>3, <2>4 DEF Destroys
  <2>6. \A i, j \in 1 .. d - 1 : r[i] = r[j] => i = j
    BY <2>3, <2>4 DEF Destroys
  <2>7. Destroys(r, d - 1)
    BY <2>5, <2>6 DEF Destroys
  <2>8. Destroys(r, Len(r) - k)
    BY <2>1, <2>7 DEF d
  <2> QED
    BY <1>1, <1>2, <2>1, <2>8 DEF Follows
<1>4. ASSUME Len(s) = k, k > m PROVE Follows(r, k - m, plan)
  <2>1. /\ k - m \in 1 .. Len(plan) /\ Len(r) = k - m /\ k - m <= k
        /\ Len(r) - (k - m) = 0
    BY <1>1, <1>4
  <2>2. \A i \in 1 .. k - m : r[Len(r) + 1 - i] = plan[i]
    BY <1>1, <1>2, <2>1
  <2>3. Destroys(r, 0)
    BY DEF Destroys
  <2>4. k - m <= Len(r)
    BY <1>1, <2>1
  <2> QED
    BY <2>1, <2>2, <2>3, <2>4 DEF Follows
<1> QED
  BY <1>3, <1>4

\* It is followed when a release leads to the destruction of an object.
LEMMA FollowsDeletion ==
  ASSUME NEW s \in Seq(PointerOps), NEW k, NEW plan, Len(plan) \in Nat,
         Follows(s, k, plan),
         NEW z, s[1] = <<"downcount", z>>,
         NEW o \in Objects, \A i \in 1 .. Len(s) : s[i] # <<"delete", o>>,
         NEW r \in Seq(PointerOps), Len(r) = Len(s) + 1,
         r[1] = <<"downcount", o>>, r[2] = <<"delete", o>>,
         \A i \in 2 .. Len(s) : r[i + 1] = s[i]
  PROVE  /\ Len(s) # k => Follows(r, k, plan)
         /\ Len(s) = k /\ k > 1 => Follows(r, k - 1, plan)
<1>1. /\ k \in Nat /\ k >= 1 /\ Len(s) \in Nat /\ k <= Len(s) /\ Len(r) \in Nat
      /\ k <= Len(plan)
      /\ \A i \in 1 .. k : s[Len(s) + 1 - i] = plan[i]
      /\ Destroys(s, Len(s) - k)
  BY DEF Follows
<1>2. ASSUME NEW i \in 1 .. k, i < Len(s) PROVE r[Len(r) + 1 - i] = plan[i]
  <2>1. Len(s) + 1 - i \in 2 .. Len(s) /\ (Len(s) + 1 - i) + 1 = Len(r) + 1 - i
    BY <1>1, <1>2
  <2> QED
    BY <1>1, <2>1
<1> DEFINE d == Len(s) - k
<1>3. d \in Nat /\ d <= Len(s)
  BY <1>1
<1>4. Destroys(s, d)
  BY <1>1
<1>5. ASSUME NEW e \in {d + 1, d + 2}, e >= 2, e = d + 1 \/ d = 0
      PROVE  Destroys(r, e)
  <2>1. \A i \in 1 .. e : i = 1 \/ i = 2 \/ (i - 1 \in 2 .. d /\ r[(i - 1) + 1] = s[i - 1])
    <3> TAKE i \in 1 .. e
    <3>1. i = 1 \/ i = 2 \/ i - 1 \in 2 .. d
      BY <1>3, <1>5
    <3>2. i - 1 \in 2 .. d => i - 1 \in 2 .. Len(s)
      BY <1>3
    <3> QED
      BY <3>1, <3>2
  <2>2. \A i \in 1 .. e : i # 1 /\ i # 2 => i - 1 \in 1 .. d /\ r[i] = s[i - 1] /\ i - 1 # 1
    <3> TAKE i \in 1 .. e
    <3>1. i \in Nat /\ (i - 1) + 1 = i
      BY <1>3
    <3>2. i - 1 \in 2 .. d => i - 1 \in 1 .. d /\ i - 1 # 1
      BY <1>3
    <3> QED
      BY <2>1, <3>1, <3>2
  <2>3. \A i \in 1 .. e : i # 1 /\ i # 2 =>
          /\ \E q \in Objects : r[i] = <<"delete", q>>
          /\ r[i] # <<"delete", o>>
    <3> TAKE i \in 1 .. e
    <3>1. i # 1 /\ i # 2 => i - 1 \in 1 .. Len(s)
      BY <1>3, <2>2
    <3> HIDE DEF d
    <3> QED
      BY <1>4, <2>2, <3>1 DEF Destroys
  <2>4. \A i \in 1 .. e : i = 1 \/ \E q \in Objects : r[i] = <<"delete", q>>
    BY <2>3
  <2>5. e > 1
    BY <1>3, <1>5
  <2>6. \A i, j \in 1 .. e : r[i] = r[j] => i = j
    <3> TAKE i, j \in 1 .. e
    <3>0. \A a, b \in 1 .. e : a - 1 = b - 1 => a = b
      BY <1>3
    <3>1. CASE i \notin {1, 2} /\ j \notin {1, 2}
      <4>1. r[i] = r[j] => i - 1 = j - 1
        BY <1>4, <2>2, <3>1 DEF Destroys
      <4> QED
        BY <3>0, <4>1
    <3>2. CASE i = 1 \/ j = 1
      BY <2>4, <3>2
    <3>3. CASE i = 2 \/ j = 2
      BY <2>3, <3>3
    <3> QED
      BY <3>1, <3>2, <3>3
  <2> QED
    BY <2>4, <2>5, <2>6 DEF Destroys
<1>6. ASSUME Len(s) # k PROVE Follows(r, k, plan)
  <2>1. d + 1 >= 2 /\ Len(r) - k = d + 1 /\ k <= Len(r) /\ k < Len(s)
    BY <1>1, <1>6
  <2>2. Destroys(r, Len(r) - k)
    BY <1>5, <2>1
  <2>3. \A i \in 1 .. k : r[Len(r) + 1 - i] = plan[i]
    BY <1>1, <1>2, <2>1
  <2> QED
    BY <1>1, <2>1, <2>2, <2>3 DEF Follows
<1>7. ASSUME Len(s) = k, k > 1 PROVE Follows(r, k - 1, plan)
  <2>1. d = 0 /\ d + 2 >= 2 /\ Len(r) - (k - 1) = d + 2 /\ k - 1 <= Len(r)
    BY <1>1, <1>7
  <2>2. Destroys(r, Len(r) - (k - 1))
    BY <1>5, <2>1
  <2>3. \A i \in 1 .. k - 1 : r[Len(r) + 1 - i] = plan[i]
    BY <1>1, <1>2, <1>7
  <2>4. k - 1 \in 1 .. Len(plan)
    BY <1>1, <1>7
  <2> QED
    BY <2>1, <2>2, <2>3, <2>4 DEF Follows
<1> QED
  BY <1>6, <1>7

\* The plans, step by step.
LEMMA Plans ==
  ASSUME NEW t, NEW x, NEW y
  PROVE  /\ Len(CopyPlan(t, x, y)) = 8
         /\ CopyPlan(t, x, y)[1] = <<"set", t, NULL>>
         /\ CopyPlan(t, x, y)[2] = <<"downcount", t>>
         /\ CopyPlan(t, x, y)[3] = <<"upcount", x>>
         /\ CopyPlan(t, x, y)[4] = <<"set", x, t>>
         /\ CopyPlan(t, x, y)[5] = <<"downcount", x>>
         /\ CopyPlan(t, x, y)[6] = <<"compare", x, t>>
         /\ CopyPlan(t, x, y)[7] = <<"upcount", t>>
         /\ CopyPlan(t, x, y)[8] = <<"set", t, y>>
         /\ Len(NewPlan(t, x)) = 5
         /\ NewPlan(t, x)[1] = <<"set", t, NULL>>
         /\ NewPlan(t, x)[2] = <<"upcount", x>>
         /\ NewPlan(t, x)[3] = <<"set", x, t>>
         /\ NewPlan(t, x)[4] = <<"downcount", x>>
         /\ NewPlan(t, x)[5] = <<"compare", x, t>>
         /\ Len(ReleasePlan(x)) = 2
         /\ ReleasePlan(x)[1] = <<"set", x, NULL>>
         /\ ReleasePlan(x)[2] = <<"downcount", x>>
         /\ Len(ConstructPlan(x, y)) = 2
         /\ ConstructPlan(x, y)[1] = <<"upcount", x>>
         /\ ConstructPlan(x, y)[2] = <<"set", x, y>>
BY DEF CopyPlan, NewPlan, ReleasePlan, ConstructPlan

\* A call follows its plan from the beginning.
LEMMA PlanBegins ==
  ASSUME NEW t \in Pointer!Pointers, NEW x \in Pointer!Pointers, NEW y \in Pointer!Pointers
  PROVE  /\ LET s == Pointer!Copying(t, y) \o Pointer!Assigning(x, t)
                       \o Pointer!Releasing(t)
            IN s \in Seq(PointerOps) /\ Len(s) = 8 /\ Follows(s, 8, CopyPlan(t, x, y))
         /\ LET s == Pointer!Assigning(x, t) \o Pointer!Forgetting(t)
            IN s \in Seq(PointerOps) /\ Len(s) = 5 /\ Follows(s, 5, NewPlan(t, x))
         /\ LET s == Pointer!Releasing(x)
            IN s \in Seq(PointerOps) /\ Len(s) = 2 /\ Follows(s, 2, ReleasePlan(x))
         /\ LET s == Pointer!Copying(x, y)
            IN s \in Seq(PointerOps) /\ Len(s) = 2 /\ Follows(s, 2, ConstructPlan(x, y))
<1>1. \A s : Destroys(s, 0)
  BY DEF Destroys
<1>2. /\ Pointer!Releasing(x) \in Seq(PointerOps)
      /\ Len(Pointer!Releasing(x)) = 2
      /\ Pointer!Releasing(x)[1] = <<"downcount", x>>
      /\ Pointer!Releasing(x)[2] = <<"set", x, NULL>>
  BY DEF Pointer!Releasing, PointerOps
<1>3. /\ Pointer!Copying(x, y) \in Seq(PointerOps)
      /\ Len(Pointer!Copying(x, y)) = 2
      /\ Pointer!Copying(x, y)[1] = <<"set", x, y>>
      /\ Pointer!Copying(x, y)[2] = <<"upcount", x>>
  BY DEF Pointer!Copying, PointerOps
<1>4. /\ Pointer!Copying(t, y) \in Seq(PointerOps)
      /\ Len(Pointer!Copying(t, y)) = 2
      /\ Pointer!Copying(t, y)[1] = <<"set", t, y>>
      /\ Pointer!Copying(t, y)[2] = <<"upcount", t>>
  BY DEF Pointer!Copying, PointerOps
<1>5. /\ Pointer!Releasing(t) \in Seq(PointerOps)
      /\ Len(Pointer!Releasing(t)) = 2
      /\ Pointer!Releasing(t)[1] = <<"downcount", t>>
      /\ Pointer!Releasing(t)[2] = <<"set", t, NULL>>
  BY DEF Pointer!Releasing, PointerOps
<1>6. /\ Pointer!Assigning(x, t) \in Seq(PointerOps)
      /\ Len(Pointer!Assigning(x, t)) = 4
      /\ Pointer!Assigning(x, t)[1] = <<"compare", x, t>>
      /\ Pointer!Assigning(x, t)[2] = <<"downcount", x>>
      /\ Pointer!Assigning(x, t)[3] = <<"set", x, t>>
      /\ Pointer!Assigning(x, t)[4] = <<"upcount", x>>
  BY DEF Pointer!Assigning, PointerOps
<1>7. /\ Pointer!Forgetting(t) \in Seq(PointerOps)
      /\ Len(Pointer!Forgetting(t)) = 1
      /\ Pointer!Forgetting(t)[1] = <<"set", t, NULL>>
  BY DEF Pointer!Forgetting, PointerOps
<1>8. LET s == Pointer!Releasing(x)
      IN s \in Seq(PointerOps) /\ Len(s) = 2 /\ Follows(s, 2, ReleasePlan(x))
  <2> DEFINE s == Pointer!Releasing(x)
             f == ReleasePlan(x)
  <2>1. Len(f) = 2 /\ f[1] = <<"set", x, NULL>> /\ f[2] = <<"downcount", x>>
    BY DEF ReleasePlan
  <2> HIDE DEF s, f
  <2>5. s[2] = f[1] /\ s[1] = f[2]
    BY <1>2, <2>1 DEF s
  <2>2. \A i \in 1 .. 2 : s[2 + 1 - i] = f[i]
    BY <2>5
  <2>3. Len(s) = 2
    BY <1>2 DEF s
  <2>4. Follows(s, 2, f)
    BY <1>1, <2>1, <2>2, <2>3 DEF Follows
  <2> QED
    BY <1>2, <2>4 DEF s, f
<1>9. LET s == Pointer!Copying(x, y)
      IN s \in Seq(PointerOps) /\ Len(s) = 2 /\ Follows(s, 2, ConstructPlan(x, y))
  <2> DEFINE s == Pointer!Copying(x, y)
             f == ConstructPlan(x, y)
  <2>1. Len(f) = 2 /\ f[1] = <<"upcount", x>> /\ f[2] = <<"set", x, y>>
    BY DEF ConstructPlan
  <2> HIDE DEF s, f
  <2>2. \A i \in 1 .. 2 : s[2 + 1 - i] = f[i]
    BY <1>3, <2>1 DEF s
  <2>3. Len(s) = 2
    BY <1>3 DEF s
  <2>4. Follows(s, 2, f)
    BY <1>1, <2>1, <2>2, <2>3 DEF Follows
  <2> QED
    BY <1>3, <2>4 DEF s, f
<1>10. LET s == Pointer!Assigning(x, t) \o Pointer!Forgetting(t)
       IN s \in Seq(PointerOps) /\ Len(s) = 5 /\ Follows(s, 5, NewPlan(t, x))
  <2> DEFINE a == Pointer!Assigning(x, t)
             b == Pointer!Forgetting(t)
             s == a \o b
             f == NewPlan(t, x)
  <2>1. /\ s \in Seq(PointerOps) /\ Len(s) = Len(a) + Len(b)
        /\ \A i \in 1 .. Len(a) + Len(b) :
             s[i] = IF i <= Len(a) THEN a[i] ELSE b[i - Len(a)]
    BY <1>6, <1>7, ConcatProperties
  <2>2. /\ Len(f) = 5 /\ f[1] = <<"set", t, NULL>> /\ f[2] = <<"upcount", x>>
        /\ f[3] = <<"set", x, t>> /\ f[4] = <<"downcount", x>> /\ f[5] = <<"compare", x, t>>
    BY DEF NewPlan
  <2>3. /\ Len(a) = 4 /\ Len(b) = 1
        /\ a[1] = f[5] /\ a[2] = f[4] /\ a[3] = f[3] /\ a[4] = f[2] /\ b[1] = f[1]
    BY <1>6, <1>7, <2>2
  <2> HIDE DEF s, f, a, b
  <2>4. /\ Len(s) = 5
        /\ s[1] = f[5] /\ s[2] = f[4] /\ s[3] = f[3] /\ s[4] = f[2] /\ s[5] = f[1]
    BY <2>1, <2>3
  <2>5. \A i \in 1 .. 5 : s[5 + 1 - i] = f[i]
    <3> TAKE i \in 1 .. 5
    <3>1. i = 1 \/ i = 2 \/ i = 3 \/ i = 4 \/ i = 5
      OBVIOUS
    <3> QED
      BY <2>4, <3>1
  <2>6. Follows(s, 5, f)
    BY <1>1, <2>2, <2>4, <2>5 DEF Follows
  <2> QED
    BY <2>1, <2>4, <2>6 DEF s, f, a, b
<1>11. LET s == Pointer!Copying(t, y) \o Pointer!Assigning(x, t)
                        \o Pointer!Releasing(t)
       IN s \in Seq(PointerOps) /\ Len(s) = 8 /\ Follows(s, 8, CopyPlan(t, x, y))
  <2> DEFINE a == Pointer!Copying(t, y)
             b == Pointer!Assigning(x, t)
             c == Pointer!Releasing(t)
             r == a \o b
             s == r \o c
             f == CopyPlan(t, x, y)
  <2>1. /\ r \in Seq(PointerOps) /\ Len(r) = Len(a) + Len(b)
        /\ \A i \in 1 .. Len(a) + Len(b) :
             r[i] = IF i <= Len(a) THEN a[i] ELSE b[i - Len(a)]
    BY <1>4, <1>6, ConcatProperties
  <2>a. c \in Seq(PointerOps)
    BY <1>5
  <2>b. r \in Seq(PointerOps)
    BY <2>1
  <2> HIDE DEF r, c
  <2>2. /\ s \in Seq(PointerOps) /\ Len(s) = Len(r) + Len(c)
        /\ \A i \in 1 .. Len(r) + Len(c) :
             s[i] = IF i <= Len(r) THEN r[i] ELSE c[i - Len(r)]
    BY <2>a, <2>b, ConcatProperties
  <2>3. /\ Len(f) = 8 /\ f[1] = <<"set", t, NULL>> /\ f[2] = <<"downcount", t>>
        /\ f[3] = <<"upcount", x>> /\ f[4] = <<"set", x, t>> /\ f[5] = <<"downcount", x>>
        /\ f[6] = <<"compare", x, t>> /\ f[7] = <<"upcount", t>> /\ f[8] = <<"set", t, y>>
    BY DEF CopyPlan
  <2>4. /\ Len(a) = 2 /\ Len(b) = 4 /\ Len(c) = 2
        /\ a[1] = f[8] /\ a[2] = f[7] /\ b[1] = f[6] /\ b[2] = f[5] /\ b[3] = f[4]
        /\ b[4] = f[3] /\ c[1] = f[2] /\ c[2] = f[1]
    BY <1>4, <1>5, <1>6, <2>3 DEF c
  <2> HIDE DEF s, f, a, b
  <2>5. /\ Len(r) = 6
        /\ r[1] = f[8] /\ r[2] = f[7] /\ r[3] = f[6] /\ r[4] = f[5] /\ r[5] = f[4]
        /\ r[6] = f[3]
    BY <2>1, <2>4
  <2>6. /\ Len(s) = 8
        /\ s[1] = f[8] /\ s[2] = f[7] /\ s[3] = f[6] /\ s[4] = f[5] /\ s[5] = f[4]
        /\ s[6] = f[3] /\ s[7] = f[2] /\ s[8] = f[1]
    BY <2>2, <2>4, <2>5
  <2>7. \A i \in 1 .. 8 : s[8 + 1 - i] = f[i]
    <3> TAKE i \in 1 .. 8
    <3>1. i = 1 \/ i = 2 \/ i = 3 \/ i = 4 \/ i = 5 \/ i = 6 \/ i = 7 \/ i = 8
      OBVIOUS
    <3> QED
      BY <2>6, <3>1
  <2>8. Follows(s, 8, f)
    BY <1>1, <2>3, <2>6, <2>7 DEF Follows
  <2> QED
    BY <2>2, <2>6, <2>8 DEF s, f, a, b, c, r
<1> QED
  BY <1>8, <1>9, <1>10, <1>11

-----------------------------------------------------------------------------
\* The counted pointers: the invariant.

\* y is a variable of M, or the member of an object that one of them refers to.
Reached(M, y) ==
  y \in M /\ (y \in Variables \/ \E w \in M \cap Variables : p[w] = y)

\* The thread's call, of which the last k steps of the plan are left.
Constructs(t, x, k) ==
  /\ x \in Variables /\ p[t] = NULL
  /\ Len(todo[t]) = k
  /\ \E y \in Variables \cup Objects :
       /\ Follows(todo[t], k, ConstructPlan(x, y))
       /\ (y = x /\ p[x] = NULL) \/ Reached(reads[t] \ {x}, y)
       /\ k = 1 => p[x] = p[y]

Copies(t, x, k) ==
  /\ Len(todo[t]) # k => k \in {1, 4}
  /\ \E y \in Variables \cup Objects :
       /\ Follows(todo[t], k, CopyPlan(t, x, y))
       /\ k >= 7 => Reached(reads[t] \cup writes[t], y)
       /\ k = 7 => p[t] = p[y]
       /\ k = 3 => p[x] = p[t]

AssignsNew(t, x, k) ==
  /\ Len(todo[t]) # k => k = 3
  /\ k >= 2 /\ p[t] \in Objects
  /\ Follows(todo[t], k, NewPlan(t, x))
  /\ k = 2 => p[x] = p[t]

Releases(t, x, k) ==
  /\ Len(todo[t]) # k => k = 1
  /\ p[t] = NULL
  /\ Follows(todo[t], k, ReleasePlan(x))

\* x exists as long as the call.
HeldBy(t, x) == x \in Variables \/ \E v \in Variables \cap reads[t] : p[v] = x

InCall(t) ==
  \/ todo[t] = <<>> /\ reads[t] = {} /\ writes[t] = {} /\ p[t] = NULL
  \/ \E x \in Variables \cup Objects, k \in 1 .. 8 :
       /\ writes[t] = {x}
       /\ \/ Constructs(t, x, k)
          \/ /\ x \notin reads[t] /\ HeldBy(t, x)
             /\ Copies(t, x, k) \/ AssignsNew(t, x, k) \/ Releases(t, x, k)

\* The objects the thread is about to delete.
DoomedIn(s) == {o \in Objects : \E i \in DOMAIN s : s[i] = <<"delete", o>>}

\* The thread has created o, which has no counted reference yet.
AssigningNew(s, t) ==
  \E x \in Variables \cup Objects, k \in 2 .. 5 : Follows(s, k, NewPlan(t, x))

IsNew(t, o) == p[t] = o /\ AssigningNew(todo[t], t)

\* No two threads assign a pointer, or destroy an object, that the other uses.
Apart ==
  \A t, u \in PointerThreads : t # u =>
    /\ writes[t] \cap (reads[u] \cup writes[u]) = {}
    /\ DoomedIn(todo[t]) \cap DoomedIn(todo[u]) = {}

\* The references of o are counted; without one it is deleted, new or about to be
\* deleted.
CountIsRight(o) ==
  /\ IsFiniteSet(Pointer!References(o))
  /\ life[o] # "deleted" => crefs[o] = Cardinality(Pointer!References(o))
  /\ life[o] = "deleted" => Pointer!References(o) = {}
  /\ life[o] = "alive" /\ Pointer!References(o) = {} =>
       \E t \in PointerThreads : o \in DoomedIn(todo[t]) \/ IsNew(t, o)

\* One that is about to be deleted has none; a new one not even an uncounted one
\* elsewhere.
NoReference(t, o) ==
  /\ o \in DoomedIn(todo[t]) => life[o] = "alive" /\ Pointer!References(o) = {}
  /\ IsNew(t, o) =>
       /\ life[o] = "alive"
       /\ \A x \in Pointer!Pointers : p[x] = o => x \in UncountedIn(todo[t])
       /\ \A u \in PointerThreads : o \notin DoomedIn(todo[u])

PointerTypes ==
  /\ Pointer!TypeOK
  /\ todo \in [PointerThreads -> Seq(PointerOps)]
  /\ \A x \in Pointer!Pointers : p[x] # NULL => life[p[x]] # "unborn"

\* Without a race.
InOrder ==
  /\ mishaps = {}
  /\ \A t \in PointerThreads : InCall(t)
  /\ Apart
  /\ \A o \in Objects : CountIsRight(o)
  /\ \A t \in PointerThreads, o \in Objects : NoReference(t, o)

\* The inductive invariant.
PointerIInv == PointerTypes /\ ("raced" \notin mishaps => InOrder)

\* What the pointers are.
LEMMA PointerNames ==
  /\ Pointer!Pointers = Objects \cup Variables \cup PointerThreads
  /\ \A x \in Objects : x \notin Variables /\ x \notin PointerThreads
  /\ \A x \in Variables : x \notin Objects /\ x \notin PointerThreads
  /\ \A x \in PointerThreads : x \notin Objects /\ x \notin Variables
  /\ NULL \notin Pointer!Pointers
  /\ MaxPointerCalls \in Nat
BY PartsAssumption DEF Pointer!Parameters, Pointer!Pointers

\* The uncounted pointers of a thread are those of its steps.
LEMMA UncountedIs ==
  ASSUME NEW t PROVE Pointer!Uncounted(t) = UncountedIn(todo[t])
BY DEF Pointer!Uncounted, UncountedIn

\* What a plan leaves uncounted.
LEMMA PlanUncounted ==
  ASSUME NEW s \in Seq(PointerOps), NEW k, NEW plan, Len(plan) \in Nat,
         Follows(s, k, plan), NEW M,
         \A i \in 1 .. k : plan[i][1] \in {"set", "upcount"} => plan[i][2] \in M,
         \A i \in 1 .. k : plan[i][1] # "delete"
  PROVE  UncountedIn(s) \subseteq M \cup DoomedIn(s)
<1>1. SUFFICES ASSUME NEW i \in 1 .. Len(s), s[i][1] \in {"set", "upcount", "delete"}
               PROVE  s[i][2] \in M \cup DoomedIn(s)
  <2>1. DOMAIN s = 1 .. Len(s)
    OBVIOUS
  <2> QED
    BY <1>1, <2>1 DEF UncountedIn
<1>2. Len(s) \in Nat /\ k \in Nat
  BY FollowsHead
<1>3. CASE i \in 1 .. Len(s) - k
  <2>1. PICK o \in Objects :
          s[i] = <<"delete", o>> \/ (i = 1 /\ s[1] = <<"downcount", o>>)
    BY <1>3 DEF Follows, Destroys
  <2>2. s[i] = <<"delete", o>>
    BY <1>1, <2>1
  <2>3. o \in DoomedIn(s)
    <3>1. i \in DOMAIN s
      BY <1>2
    <3> QED
      BY <2>2, <3>1 DEF DoomedIn
  <2> QED
    BY <2>2, <2>3
<1>4. CASE i \notin 1 .. Len(s) - k
  <2>1. Len(s) + 1 - i \in 1 .. k /\ Len(s) + 1 - (Len(s) + 1 - i) = i
    BY <1>2, <1>4
  <2>2. s[i] = plan[Len(s) + 1 - i]
    BY <2>1 DEF Follows
  <2> QED
    BY <1>1, <2>1, <2>2
<1> QED
  BY <1>3, <1>4

\* How long the plans are.
LEMMA PlanLengths ==
  ASSUME NEW t, NEW x, NEW y
  PROVE  /\ Len(CopyPlan(t, x, y)) = 8
         /\ Len(NewPlan(t, x)) = 5
         /\ Len(ReleasePlan(x)) = 2
         /\ Len(ConstructPlan(x, y)) = 2
BY DEF CopyPlan, NewPlan, ReleasePlan, ConstructPlan

\* A plan assigns the temporary and one other pointer.
OnlyAssigns(plan, t, x) ==
  \A i \in 1 .. Len(plan) :
    /\ plan[i][1] \in {"set", "upcount"} => plan[i][2] \in {t, x}
    /\ plan[i][1] # "delete"

\* The plans do.
LEMMA PlanAssigns ==
  ASSUME NEW t, NEW x, NEW y, NEW plan,
         \/ plan = CopyPlan(t, x, y) \/ plan = NewPlan(t, x)
         \/ plan = ReleasePlan(x) \/ plan = ConstructPlan(x, y)
  PROVE  OnlyAssigns(plan, t, x)
<1> SUFFICES ASSUME NEW i \in 1 .. Len(plan)
             PROVE  /\ plan[i][1] \in {"set", "upcount"} => plan[i][2] \in {t, x}
                    /\ plan[i][1] # "delete"
  BY DEF OnlyAssigns
<1>1. CASE plan = CopyPlan(t, x, y)
  <2> DEFINE f == CopyPlan(t, x, y)
  <2>1. /\ Len(f) = 8 /\ f[1] = <<"set", t, NULL>> /\ f[2] = <<"downcount", t>>
        /\ f[3] = <<"upcount", x>> /\ f[4] = <<"set", x, t>> /\ f[5] = <<"downcount", x>>
        /\ f[6] = <<"compare", x, t>> /\ f[7] = <<"upcount", t>> /\ f[8] = <<"set", t, y>>
    BY DEF CopyPlan
  <2> HIDE DEF f
  <2>2. plan = f
    BY <1>1 DEF f
  <2>a. i \in 1 .. 8
    BY <2>1, <2>2
  <2>3. i \in {1, 2, 3, 4, 5, 6, 7, 8}
    BY <2>a
  <2> QED
    BY <2>1, <2>2, <2>3
<1>2. CASE plan = NewPlan(t, x)
  <2> DEFINE f == NewPlan(t, x)
  <2>1. /\ Len(f) = 5 /\ f[1] = <<"set", t, NULL>> /\ f[2] = <<"upcount", x>>
        /\ f[3] = <<"set", x, t>> /\ f[4] = <<"downcount", x>> /\ f[5] = <<"compare", x, t>>
    BY DEF NewPlan
  <2> HIDE DEF f
  <2>2. plan = f
    BY <1>2 DEF f
  <2>a. i \in 1 .. 5
    BY <2>1, <2>2
  <2>3. i \in {1, 2, 3, 4, 5}
    BY <2>a
  <2> QED
    BY <2>1, <2>2, <2>3
<1>3. CASE plan = ReleasePlan(x) \/ plan = ConstructPlan(x, y)
  <2>1. i \in {1, 2} /\ Len(plan) = 2
    BY <1>3 DEF ReleasePlan, ConstructPlan
  <2>2. /\ plan[1] \in {<<"set", x, NULL>>, <<"upcount", x>>}
        /\ plan[2] \in {<<"downcount", x>>, <<"set", x, y>>}
    BY <1>3 DEF ReleasePlan, ConstructPlan
  <2> QED
    BY <2>1, <2>2
<1> QED
  BY <1>1, <1>2, <1>3

\* A thread leaves only what is its own uncounted.
LEMMA UncountedOwn ==
  ASSUME PointerTypes, NEW t \in PointerThreads, InCall(t)
  PROVE  UncountedIn(todo[t]) \subseteq {t} \cup writes[t] \cup DoomedIn(todo[t])
<1>1. todo[t] \in Seq(PointerOps)
  BY DEF PointerTypes
<1>2. CASE todo[t] = <<>>
  BY <1>2, UncountedInNone
<1>3. ASSUME NEW x, NEW y, writes[t] = {x}, NEW k, NEW plan,
             \/ plan = CopyPlan(t, x, y) \/ plan = NewPlan(t, x)
             \/ plan = ReleasePlan(x) \/ plan = ConstructPlan(x, y),
             Follows(todo[t], k, plan)
      PROVE  UncountedIn(todo[t]) \subseteq {t} \cup writes[t] \cup DoomedIn(todo[t])
  <2>1. Len(plan) \in Nat /\ k \in 1 .. Len(plan)
    <3>1. k \in 1 .. Len(plan)
      BY <1>3 DEF Follows
    <3> QED
      BY <1>3, <3>1, PlanLengths
  <2>a. OnlyAssigns(plan, t, x)
    BY <1>3, PlanAssigns
  <2>b. \A i \in 1 .. k : i \in 1 .. Len(plan)
    BY <2>1
  <2>2. \A i \in 1 .. k : plan[i][1] \in {"set", "upcount"} => plan[i][2] \in {t, x}
    BY <2>a, <2>b DEF OnlyAssigns
  <2>3. \A i \in 1 .. k : plan[i][1] # "delete"
    BY <2>a, <2>b DEF OnlyAssigns
  <2> QED
    BY <1>1, <1>3, <2>1, <2>2, <2>3, PlanUncounted
<1> QED
  BY <1>2, <1>3 DEF InCall, Constructs, Copies, AssignsNew, Releases

\* A reference is one that no thread leaves uncounted.
LEMMA ReferenceIs ==
  ASSUME NEW o, NEW x
  PROVE  x \in Pointer!References(o) <=>
           /\ x \in Pointer!Pointers /\ p[x] = o
           /\ \A u \in PointerThreads : x \notin UncountedIn(todo[u])
BY UncountedIs DEF Pointer!References

\* What a thread uses, and does not leave uncounted itself, is counted.
LEMMA UsedIsCounted ==
  ASSUME PointerTypes, InOrder, NEW t \in PointerThreads,
         NEW v \in Variables, v \in reads[t] \cup writes[t], v \notin UncountedIn(todo[t])
  PROVE  v \in Pointer!References(p[v])
<1>1. ASSUME NEW u \in PointerThreads, u # t PROVE v \notin UncountedIn(todo[u])
  <2>1. v \notin writes[u] /\ v # u /\ v \notin Objects
    BY <1>1, PointerNames DEF InOrder, Apart
  <2> QED
    BY <2>1, UncountedOwn DEF InOrder, DoomedIn
<1> QED
  BY <1>1, ReferenceIs, PointerNames

\* The object whose member a thread assigns has a reference in a variable.
LEMMA AssignedExists ==
  ASSUME PointerTypes, InOrder, NEW t \in PointerThreads,
         NEW x \in Objects, x \in writes[t]
  PROVE  /\ writes[t] = {x}
         /\ Pointer!References(x) # {}
         /\ \E v \in Variables : v \in Pointer!References(x)
<1>1. x \notin Variables /\ writes[t] = {x} /\ x \notin reads[t] /\ HeldBy(t, x)
  <2>1. x \notin Variables /\ InCall(t)
    BY PointerNames DEF InOrder
  <2>2. writes[t] # {}
    OBVIOUS
  <2>3. PICK z \in Variables \cup Objects : 
          writes[t] = {z} /\ (z \in Variables \/ (z \notin reads[t] /\ HeldBy(t, z)))
    BY <2>1, <2>2 DEF InCall, Constructs
  <2>4. z = x
    BY <2>3
  <2> QED
    BY <2>1, <2>3, <2>4
<1>2. PICK v \in Variables \cap reads[t] : p[v] = x
  BY <1>1 DEF HeldBy
<1>3. v # t /\ v \notin writes[t] /\ v \notin DoomedIn(todo[t])
  BY <1>1, <1>2, PointerNames DEF DoomedIn
<1>4. v \notin UncountedIn(todo[t])
  BY <1>3, UncountedOwn DEF InOrder
<1>5. v \in Pointer!References(x)
  BY <1>2, <1>4, UsedIsCounted
<1> QED
  BY <1>1, <1>5

\* What a thread may change or count: its temporary, the pointer it assigns, and the
\* members of the objects it is about to delete.
Own(t) == {t} \cup writes[t] \cup DoomedIn(todo[t])

\* No other thread does, and none leaves what it uses uncounted.
LEMMA OwnIsOwn ==
  ASSUME PointerTypes, InOrder, NEW t \in PointerThreads, NEW u \in PointerThreads, u # t
  PROVE  /\ Own(t) \cap Own(u) = {}
         /\ \A x \in reads[t] \cup writes[t] :
              x \notin Objects \/ Pointer!References(x) # {} => x \notin Own(u)
<1>1. /\ writes[t] \in SUBSET (Variables \cup Objects)
      /\ writes[u] \in SUBSET (Variables \cup Objects)
      /\ reads[t] \in SUBSET (Variables \cup Objects)
  BY DEF PointerTypes, Pointer!TypeOK
<1>2. /\ writes[t] \cap writes[u] = {} /\ writes[u] \cap reads[t] = {}
      /\ DoomedIn(todo[t]) \cap DoomedIn(todo[u]) = {}
  BY DEF InOrder, Apart
<1>3. /\ \A o \in DoomedIn(todo[t]) : o \in Objects /\ Pointer!References(o) = {}
      /\ \A o \in DoomedIn(todo[u]) : o \in Objects /\ Pointer!References(o) = {}
  BY DEF InOrder, NoReference, DoomedIn
<1>4. /\ writes[t] \cap DoomedIn(todo[u]) = {}
      /\ writes[u] \cap DoomedIn(todo[t]) = {}
  BY <1>3, AssignedExists
<1>5. t # u /\ t \notin Objects \cup Variables /\ u \notin Objects \cup Variables
  BY PointerNames
<1> QED
  BY <1>1, <1>2, <1>3, <1>4, <1>5 DEF Own

\* A new object has no counted reference, and is new for one thread.
LEMMA NewIsUnreferenced ==
  ASSUME PointerTypes, InOrder, NEW t \in PointerThreads, NEW o \in Objects, IsNew(t, o)
  PROVE  /\ Pointer!References(o) = {}
         /\ life[o] = "alive"
         /\ \A u \in PointerThreads : p[u] = o => u = t
         /\ \A u \in PointerThreads : IsNew(u, o) => u = t
<1>1. /\ life[o] = "alive"
      /\ \A x \in Pointer!Pointers : p[x] = o => x \in UncountedIn(todo[t])
  BY DEF InOrder, NoReference
<1>2. Pointer!References(o) = {}
  BY <1>1, ReferenceIs
<1>3. ASSUME NEW u \in PointerThreads, p[u] = o PROVE u = t
  <2>1. u \in UncountedIn(todo[t]) /\ u \in Own(u)
    BY <1>1, <1>3, PointerNames DEF Own
  <2>2. u \in Own(t)
    BY <2>1, UncountedOwn DEF InOrder, Own
  <2> QED
    BY <2>1, <2>2, OwnIsOwn
<1> QED
  BY <1>1, <1>2, <1>3 DEF IsNew

-----------------------------------------------------------------------------
\* The counted pointers: what each plan leaves uncounted.

\* The last k steps of the plan leave x uncounted.
LeftBy(plan, k, x) ==
  \E j \in 1 .. k :
    /\ plan[j][1] \in {"set", "upcount", "delete"}
    /\ plan[j][2] = x
    /\ \A l \in j + 1 .. k : plan[l] # <<"downcount", x>>

\* Without destructions ahead, the plan decides what is uncounted.
LEMMA UncountedByPlan ==
  ASSUME NEW s \in Seq(PointerOps), NEW k, NEW plan, Len(plan) \in Nat,
         Follows(s, k, plan), Len(s) = k, NEW x \in UncountedIn(s)
  PROVE  LeftBy(plan, k, x)
<1>1. /\ k \in Nat /\ DOMAIN s = 1 .. k
      /\ \A j \in 1 .. k : s[k + 1 - j] = plan[j]
  BY DEF Follows
<1>2. PICK i \in 1 .. k :
        /\ s[i][1] \in {"set", "upcount", "delete"}
        /\ s[i][2] = x
        /\ \A j \in 1 .. i - 1 : s[j] # <<"downcount", x>>
  BY <1>1 DEF UncountedIn
<1> DEFINE m == k + 1 - i
<1>3. m \in 1 .. k /\ k + 1 - m = i /\ s[i] = plan[m]
  BY <1>1
<1>4. \A l \in m + 1 .. k : plan[l] # <<"downcount", x>>
  <2> TAKE l \in m + 1 .. k
  <2>1. l \in 1 .. k /\ k + 1 - l \in 1 .. i - 1
    BY <1>1, <1>3
  <2> QED
    BY <1>1, <1>2, <2>1
<1> HIDE DEF m
<1> QED
  BY <1>2, <1>3, <1>4 DEF LeftBy

\* The plan of a copy: x is uncounted from its downcount to its upcount, t before it
\* was counted and at the end.
LEMMA CopyLeaves ==
  ASSUME NEW s \in Seq(PointerOps), NEW k, NEW t, NEW x, NEW y, t # x,
         Follows(s, k, CopyPlan(t, x, y)), Len(s) = k
  PROVE  /\ k >= 5 \/ k <= 2 => x \notin UncountedIn(s)
         /\ k \in 2 .. 6 => t \notin UncountedIn(s)
<1> DEFINE f == CopyPlan(t, x, y)
<1>1. /\ Len(f) = 8 /\ f[1] = <<"set", t, NULL>> /\ f[2] = <<"downcount", t>>
      /\ f[3] = <<"upcount", x>> /\ f[4] = <<"set", x, t>> /\ f[5] = <<"downcount", x>>
      /\ f[6] = <<"compare", x, t>> /\ f[7] = <<"upcount", t>> /\ f[8] = <<"set", t, y>>
  BY DEF CopyPlan
<1> HIDE DEF f
<1>2. k \in 1 .. 8 /\ Follows(s, k, f)
  BY <1>1 DEF Follows, f
<1>3. \A z \in UncountedIn(s) : LeftBy(f, k, z)
  BY <1>1, <1>2, UncountedByPlan
<1>4. ASSUME k >= 5 \/ k <= 2, x \in UncountedIn(s) PROVE FALSE
  <2>1. PICK j \in 1 .. k :
          /\ f[j][1] \in {"set", "upcount", "delete"}
          /\ f[j][2] = x
          /\ \A l \in j + 1 .. k : f[l] # <<"downcount", x>>
    BY <1>3, <1>4 DEF LeftBy
  <2>2. j \in {1, 2, 3, 4, 5, 6, 7, 8}
    BY <1>2
  <2>3. j = 3 \/ j = 4
    BY <1>1, <2>1, <2>2
  <2>4. 5 \in j + 1 .. k
    BY <1>2, <1>4, <2>3
  <2> QED
    BY <1>1, <2>1, <2>4
<1>5. ASSUME k \in 2 .. 6, t \in UncountedIn(s) PROVE FALSE
  <2>1. PICK j \in 1 .. k :
          /\ f[j][1] \in {"set", "upcount", "delete"}
          /\ f[j][2] = t
          /\ \A l \in j + 1 .. k : f[l] # <<"downcount", t>>
    BY <1>3, <1>5 DEF LeftBy
  <2>2. j \in {1, 2, 3, 4, 5, 6}
    BY <1>5
  <2>3. j = 1
    BY <1>1, <2>1, <2>2
  <2>4. 2 \in j + 1 .. k
    BY <1>5, <2>3
  <2> QED
    BY <1>1, <2>1, <2>4
<1> QED
  BY <1>4, <1>5

\* The plan for a new object: x is uncounted in between, t to the end.
LEMMA NewLeaves ==
  ASSUME NEW s \in Seq(PointerOps), NEW k, NEW t \in PointerThreads, NEW x, t # x,
         Follows(s, k, NewPlan(t, x)), Len(s) = k
  PROVE  /\ k >= 4 \/ k <= 1 => x \notin UncountedIn(s)
         /\ t \in UncountedIn(s)
<1> DEFINE f == NewPlan(t, x)
<1>1. /\ Len(f) = 5 /\ f[1] = <<"set", t, NULL>> /\ f[2] = <<"upcount", x>>
      /\ f[3] = <<"set", x, t>> /\ f[4] = <<"downcount", x>> /\ f[5] = <<"compare", x, t>>
  BY DEF NewPlan
<1> HIDE DEF f
<1>2. /\ k \in 1 .. 5 /\ Follows(s, k, f)
      /\ \A j \in 1 .. k : s[k + 1 - j] = f[j]
  BY <1>1 DEF Follows, f
<1>3. ASSUME k >= 4 \/ k <= 1, x \in UncountedIn(s) PROVE FALSE
  <2>0. LeftBy(f, k, x)
    BY <1>1, <1>2, <1>3, UncountedByPlan
  <2>1. PICK j \in 1 .. k :
          /\ f[j][1] \in {"set", "upcount", "delete"}
          /\ f[j][2] = x
          /\ \A l \in j + 1 .. k : f[l] # <<"downcount", x>>
    BY <2>0 DEF LeftBy
  <2>2. j \in {1, 2, 3, 4, 5}
    BY <1>2
  <2>3. j = 2 \/ j = 3
    BY <1>1, <2>1, <2>2
  <2>4. 4 \in j + 1 .. k
    BY <1>2, <1>3, <2>3
  <2> QED
    BY <1>1, <2>1, <2>4
<1>4. t \in UncountedIn(s)
  <2>1. /\ k \in DOMAIN s /\ DOMAIN s = 1 .. k
        /\ \A i \in 1 .. k : k + 1 - i \in {1, 2, 3, 4, 5} /\ k + 1 - (k + 1 - i) = i
                               /\ k + 1 - i \in 1 .. k
    BY <1>2
  <2>2. s[k] = <<"set", t, NULL>>
    <3>1. k + 1 - 1 = k /\ 1 \in 1 .. k
      BY <1>2
    <3> QED
      BY <1>1, <1>2, <3>1
  <2>3. \A i \in 1 .. k : s[i] # <<"downcount", t>>
    <3> TAKE i \in 1 .. k
    <3>1. s[i] = f[k + 1 - i] /\ k + 1 - i \in {1, 2, 3, 4, 5}
      BY <1>2, <2>1
    <3> HIDE DEF f
    <3>2. \A j \in {1, 2, 3, 4, 5} : f[j] # <<"downcount", t>>
      BY <1>1
    <3> QED
      BY <3>1, <3>2
  <2>4. t \in Pointer!Pointers
    BY PointerNames
  <2>5. \A j \in 1 .. k - 1 : j \in 1 .. k
    BY <1>2
  <2>6. /\ s[k][1] \in {"set", "upcount", "delete"} /\ s[k][2] = t
        /\ \A j \in 1 .. k - 1 : s[j] # <<"downcount", t>>
    BY <2>2, <2>3, <2>5
  <2> QED
    BY <2>1, <2>4, <2>6 DEF UncountedIn
<1> QED
  BY <1>3, <1>4

\* What can be copied is counted.
LEMMA ReachedIsCounted ==
  ASSUME PointerTypes, InOrder, NEW t \in PointerThreads, NEW y, NEW M,
         M \subseteq reads[t] \cup writes[t], Reached(M, y),
         \A v \in M : v \in Variables \/ v = y => v \notin UncountedIn(todo[t])
  PROVE  /\ y \in Pointer!References(p[y])
         /\ y \in Objects => Pointer!References(y) # {}
<1>1. y \in reads[t] \cup writes[t] /\ y \in Variables \cup Objects
  <2>1. M \subseteq Variables \cup Objects
    BY DEF PointerTypes, Pointer!TypeOK
  <2> QED
    BY <2>1 DEF Reached
<1>2. CASE y \in Variables
  BY <1>1, <1>2, UsedIsCounted, PointerNames DEF Reached
<1>3. CASE y \notin Variables
  <2>1. PICK w \in M \cap Variables : p[w] = y
    BY <1>3 DEF Reached
  <2>2. w \in Pointer!References(y)
    BY <2>1, UsedIsCounted
  <2>3. ASSUME NEW u \in PointerThreads, u # t PROVE y \notin UncountedIn(todo[u])
    <3>1. y \notin Own(u)
      BY <1>1, <2>2, <2>3, OwnIsOwn
    <3> QED
      BY <3>1, UncountedOwn DEF InOrder, Own
  <2>4. y \notin UncountedIn(todo[t])
    BY DEF Reached
  <2> QED
    BY <1>1, <2>2, <2>3, <2>4, ReferenceIs, PointerNames
<1> QED
  BY <1>2, <1>3

\* How a sequence of steps ends.
LEMMA FollowsEnd ==
  ASSUME NEW s \in Seq(PointerOps), NEW k, NEW plan, Len(plan) \in Nat,
         Follows(s, k, plan)
  PROVE  /\ s[Len(s)] = plan[1]
         /\ k >= 2 => s[Len(s) - 1] = plan[2]
         /\ k = 1 /\ Len(s) # 1 =>
              \E o \in Objects : s[Len(s) - 1] \in {<<"delete", o>>, <<"downcount", o>>}
<1>1. /\ Len(s) \in Nat /\ k \in Nat /\ k >= 1 /\ k <= Len(s)
      /\ \A i \in 1 .. k : s[Len(s) + 1 - i] = plan[i]
      /\ Destroys(s, Len(s) - k)
  BY DEF Follows
<1>2. 1 \in 1 .. k /\ Len(s) + 1 - 1 = Len(s)
  BY <1>1
<1>3. k >= 2 => 2 \in 1 .. k /\ Len(s) + 1 - 2 = Len(s) - 1
  BY <1>1
<1>4. ASSUME k = 1, Len(s) # 1
      PROVE  \E o \in Objects : s[Len(s) - 1] \in {<<"delete", o>>, <<"downcount", o>>}
  <2>0. \A m \in Nat : 1 <= m /\ m # 1 => m - 1 \in 1 .. m - 1
    OBVIOUS
  <2>1. Len(s) - 1 \in 1 .. Len(s) - k
    BY <1>1, <1>4, <2>0
  <2>2. PICK o \in Objects :
          \/ s[Len(s) - 1] = <<"delete", o>>
          \/ Len(s) - 1 = 1 /\ s[1] = <<"downcount", o>>
    BY <1>1, <2>1 DEF Destroys
  <2>3. s[Len(s) - 1] \in {<<"delete", o>>, <<"downcount", o>>}
    BY <2>2
  <2> QED
    BY <2>3
<1> QED
  BY <1>1, <1>2, <1>3, <1>4

\* The assignment of a new object is no other call.
LEMMA NewIsNoOther ==
  ASSUME NEW t \in PointerThreads, NEW s \in Seq(PointerOps),
         NEW x, NEW k \in Nat, k >= 2, Follows(s, k, NewPlan(t, x)),
         NEW z \in Variables \cup Objects, NEW j \in Nat
  PROVE  /\ \A y : ~Follows(s, j, ConstructPlan(z, y))
         /\ \A y : ~Follows(s, j, CopyPlan(t, z, y))
         /\ ~Follows(s, j, ReleasePlan(z))
         /\ j >= 2 /\ Follows(s, j, NewPlan(t, z)) => z = x
<1> DEFINE n == Len(s)
<1>1. n \in Nat /\ n >= 2
  BY DEF Follows
<1>2. s[n] = <<"set", t, NULL>> /\ s[n - 1] = <<"upcount", x>>
  <2>1. Len(NewPlan(t, x)) \in Nat
    BY PlanLengths
  <2>2. s[n] = NewPlan(t, x)[1] /\ s[n - 1] = NewPlan(t, x)[2]
    BY <1>1, <2>1, FollowsEnd
  <2> QED
    BY <2>2 DEF NewPlan
<1>3. ASSUME NEW y, Follows(s, j, ConstructPlan(z, y)) PROVE FALSE
  <2>2. Len(ConstructPlan(z, y)) \in Nat
    BY PlanLengths
  <2>3. s[n] = ConstructPlan(z, y)[1]
    BY <1>3, <2>2, FollowsEnd
  <2> QED
    BY <1>2, <2>3 DEF ConstructPlan
<1>4. ASSUME NEW y, Follows(s, j, CopyPlan(t, z, y)) PROVE FALSE
  <2>2. Len(CopyPlan(t, z, y)) \in Nat
    BY PlanLengths
  <2>3. j >= 2 => s[n - 1] = CopyPlan(t, z, y)[2]
    BY <1>4, <2>2, FollowsEnd
  <2>4. j = 1 => \E o \in Objects : s[n - 1] \in {<<"delete", o>>, <<"downcount", o>>}
    BY <1>1, <1>4, <2>2, FollowsEnd
  <2>5. j >= 2 \/ j = 1
    BY <1>4 DEF Follows
  <2> QED
    BY <1>2, <2>3, <2>4, <2>5 DEF CopyPlan
<1>5. ASSUME Follows(s, j, ReleasePlan(z)) PROVE FALSE
  <2>1. Len(ReleasePlan(z)) \in Nat
    BY PlanLengths
  <2>2. s[n] = ReleasePlan(z)[1]
    BY <1>5, <2>1, FollowsEnd
  <2>3. z # t
    BY PointerNames
  <2> QED
    BY <1>2, <2>2, <2>3 DEF ReleasePlan
<1>6. ASSUME j >= 2, Follows(s, j, NewPlan(t, z)) PROVE z = x
  <2>1. Len(NewPlan(t, z)) \in Nat
    BY PlanLengths
  <2>2. s[n - 1] = NewPlan(t, z)[2]
    BY <1>6, <2>1, FollowsEnd
  <2> QED
    BY <1>2, <2>2 DEF NewPlan
<1> QED
  BY <1>3, <1>4, <1>5, <1>6

\* It is told by the steps.
LEMMA NewSteps ==
  ASSUME NEW t \in PointerThreads, NEW s \in Seq(PointerOps),
         NEW x \in Variables \cup Objects, NEW k \in Nat
  PROVE  /\ Follows(s, k, NewPlan(t, x)) /\ k >= 2 => AssigningNew(s, t)
         /\ \A y : Follows(s, k, ConstructPlan(x, y)) => ~AssigningNew(s, t)
         /\ \A y : Follows(s, k, CopyPlan(t, x, y)) => ~AssigningNew(s, t)
         /\ Follows(s, k, ReleasePlan(x)) => ~AssigningNew(s, t)
         /\ s = <<>> => ~AssigningNew(s, t)
<1>1. ASSUME Follows(s, k, NewPlan(t, x)), k >= 2 PROVE AssigningNew(s, t)
  <2>0. Len(NewPlan(t, x)) = 5
    BY DEF NewPlan
  <2>1. k \in 2 .. 5
    BY <1>1, <2>0 DEF Follows
  <2> QED
    BY <1>1, <2>1 DEF AssigningNew
<1>2. ASSUME AssigningNew(s, t)
      PROVE  /\ \A y : ~Follows(s, k, ConstructPlan(x, y))
             /\ \A y : ~Follows(s, k, CopyPlan(t, x, y))
             /\ ~Follows(s, k, ReleasePlan(x))
  <2>1. PICK z \in Variables \cup Objects, j \in 2 .. 5 : Follows(s, j, NewPlan(t, z))
    BY <1>2 DEF AssigningNew
  <2>2. j \in Nat /\ j >= 2
    OBVIOUS
  <2> QED
    BY <2>1, <2>2, NewIsNoOther
<1>3. \A j, plan : ~Follows(<<>>, j, plan)
  BY DEF Follows
<1> QED
  BY <1>1, <1>2, <1>3 DEF AssigningNew

\* A thread without a call has nothing in use.
LEMMA IdleIs ==
  ASSUME NEW t, InCall(t), todo[t] = <<>>
  PROVE  reads[t] = {} /\ writes[t] = {} /\ p[t] = NULL
<1>1. \A k, plan : ~Follows(<<>>, k, plan)
  BY DEF Follows
<1> QED
  BY <1>1 DEF InCall, Constructs, Copies, AssignsNew, Releases

\* A thread with a new object assigns it.
LEMMA NewCall ==
  ASSUME NEW t \in PointerThreads, todo[t] \in Seq(PointerOps), InCall(t),
         NEW x \in Variables \cup Objects, NEW k \in Nat, k >= 2,
         Follows(todo[t], k, NewPlan(t, x))
  PROVE  writes[t] = {x} /\ x \notin reads[t] /\ HeldBy(t, x)
<1>1. todo[t] # <<>>
  BY PlanLengths, FollowsHead
<1>2. PICK z \in Variables \cup Objects, j \in 1 .. 8 :
        /\ writes[t] = {z}
        /\ \/ Constructs(t, z, j)
           \/ /\ z \notin reads[t] /\ HeldBy(t, z)
              /\ Copies(t, z, j) \/ AssignsNew(t, z, j) \/ Releases(t, z, j)
  BY <1>1 DEF InCall
<1>3. j \in Nat
  OBVIOUS
<1>4. /\ \A y : ~Follows(todo[t], j, ConstructPlan(z, y))
      /\ \A y : ~Follows(todo[t], j, CopyPlan(t, z, y))
      /\ ~Follows(todo[t], j, ReleasePlan(z))
      /\ j >= 2 /\ Follows(todo[t], j, NewPlan(t, z)) => z = x
  BY <1>3, NewIsNoOther
<1>5. ~Constructs(t, z, j) /\ ~Copies(t, z, j) /\ ~Releases(t, z, j)
  BY <1>4 DEF Constructs, Copies, Releases
<1>6. AssignsNew(t, z, j) => z = x
  BY <1>4 DEF AssignsNew
<1> QED
  BY <1>2, <1>5, <1>6

\* What is reached stays so while another thread works on its own pointers.
LEMMA ReachedStays ==
  ASSUME PointerTypes, InOrder, NEW t \in PointerThreads, NEW u \in PointerThreads, u # t,
         \A x \in Pointer!Pointers : x \notin Own(t) => p'[x] = p[x],
         NEW y, NEW M, M \subseteq reads[u] \cup writes[u], Reached(M, y),
         \A v \in M \cap Variables : v \notin UncountedIn(todo[u])
  PROVE  p'[y] = p[y] /\ Reached(M, y)'
<1>1. M \subseteq Variables \cup Objects
  BY DEF PointerTypes, Pointer!TypeOK
<1>2. \A v \in M \cap Variables : p'[v] = p[v]
  BY <1>1, OwnIsOwn, PointerNames
<1>3. Reached(M, y)'
  BY <1>2 DEF Reached
<1>4. CASE y \in Variables
  BY <1>2, <1>4 DEF Reached
<1>5. CASE y \notin Variables
  <2>1. PICK w \in M \cap Variables : p[w] = y
    BY <1>5 DEF Reached
  <2>2. w \in Pointer!References(y)
    BY <2>1, UsedIsCounted
  <2>3. y \in M /\ y \in Pointer!Pointers
    BY <1>1, PointerNames DEF Reached
  <2>4. y \notin Own(t)
    BY <2>2, <2>3, OwnIsOwn
  <2> QED
    BY <1>3, <2>3, <2>4
<1> QED
  BY <1>3, <1>4, <1>5

\* Its call goes on as it was.
LEMMA OthersStay ==
  ASSUME PointerTypes, InOrder, NEW t \in PointerThreads, NEW u \in PointerThreads, u # t,
         \A x \in Pointer!Pointers : x \notin Own(t) => p'[x] = p[x],
         todo'[u] = todo[u], reads'[u] = reads[u], writes'[u] = writes[u]
  PROVE  InCall(u)' /\ \A o \in Objects : IsNew(u, o)' <=> IsNew(u, o)
<1>1. p'[u] = p[u]
  BY OwnIsOwn, PointerNames DEF Own
<1>2. \A x \in writes[u] : p'[x] = p[x]
  <2>1. writes[u] \subseteq Pointer!Pointers
    BY PointerNames DEF PointerTypes, Pointer!TypeOK
  <2> QED
    BY <2>1, OwnIsOwn DEF Own
<1>3. \A v \in Variables \cap reads[u] : p'[v] = p[v]
  BY OwnIsOwn, PointerNames
<1>4. \A x : HeldBy(u, x) => HeldBy(u, x)'
  BY <1>3 DEF HeldBy
<1>5. todo[u] \in Seq(PointerOps) /\ InCall(u)
  BY DEF PointerTypes, InOrder
<1>6. ASSUME NEW x \in writes[u], NEW k, AssignsNew(u, x, k) PROVE AssignsNew(u, x, k)'
  BY <1>1, <1>2, <1>6 DEF AssignsNew
<1>7. InCall(u)'
  <2>1. CASE todo[u] = <<>>
    BY <1>1, <1>5, <2>1, IdleIs DEF InCall
  <2>2. CASE todo[u] # <<>>
    <3>1. PICK x \in Variables \cup Objects, k \in 1 .. 8 :
            /\ writes[u] = {x}
            /\ \/ Constructs(u, x, k)
               \/ /\ x \notin reads[u] /\ HeldBy(u, x)
                  /\ Copies(u, x, k) \/ AssignsNew(u, x, k) \/ Releases(u, x, k)
      BY <1>5, <2>2 DEF InCall
    <3>2. ASSUME Constructs(u, x, k) PROVE Constructs(u, x, k)'
      <4>1. PICK y \in Variables \cup Objects :
              /\ Follows(todo[u], k, ConstructPlan(x, y))
              /\ (y = x /\ p[x] = NULL) \/ Reached(reads[u] \ {x}, y)
              /\ k = 1 => p[x] = p[y]
        BY <3>2 DEF Constructs
      <4>2. p'[x] = p[x]
        BY <1>2, <3>1
      <4>3. CASE y = x /\ p[x] = NULL
        BY <1>1, <3>2, <4>1, <4>2, <4>3 DEF Constructs
      <4>4. CASE Reached(reads[u] \ {x}, y)
        <5>1. PICK M : M = reads[u] \ {x}
          OBVIOUS
        <5>2. \A v \in M \cap Variables : v \notin UncountedIn(todo[u])
          BY <1>5, <3>1, <5>1, UncountedOwn, PointerNames DEF DoomedIn
        <5>3. p'[y] = p[y] /\ Reached(M, y)'
          BY <4>4, <5>1, <5>2, ReachedStays
        <5>4. Reached(reads[u] \ {x}, y)'
          BY <5>1, <5>3
        <5> QED
          BY <1>1, <3>2, <4>1, <4>2, <5>3, <5>4 DEF Constructs
      <4> QED
        BY <4>1, <4>3, <4>4
    <3>3. ASSUME Copies(u, x, k) PROVE Copies(u, x, k)'
      <4>1. PICK y \in Variables \cup Objects :
              /\ Follows(todo[u], k, CopyPlan(u, x, y))
              /\ k >= 7 => Reached(reads[u] \cup writes[u], y)
              /\ k = 7 => p[u] = p[y]
              /\ k = 3 => p[x] = p[u]
        BY <3>3 DEF Copies
      <4>2. p'[x] = p[x]
        BY <1>2, <3>1
      <4>3. k >= 7 => p'[y] = p[y] /\ Reached(reads[u] \cup writes[u], y)'
        <5> SUFFICES ASSUME k >= 7
                     PROVE  p'[y] = p[y] /\ Reached(reads[u] \cup writes[u], y)'
          OBVIOUS
        <5>1. PICK M : M = reads[u] \cup writes[u]
          OBVIOUS
        <5>2. Len(todo[u]) = k /\ u # x
          BY <3>3, PointerNames DEF Copies
        <5>3. x \notin UncountedIn(todo[u])
          BY <1>5, <4>1, <5>2, CopyLeaves
        <5>4. \A v \in M \cap Variables : v \notin UncountedIn(todo[u])
          BY <1>5, <3>1, <5>3, UncountedOwn, PointerNames DEF DoomedIn
        <5>5. p'[y] = p[y] /\ Reached(M, y)'
          BY <4>1, <5>1, <5>4, ReachedStays
        <5> QED
          BY <5>1, <5>5
      <4> QED
        BY <1>1, <3>3, <4>1, <4>2, <4>3 DEF Copies
    <3>4. Releases(u, x, k) => Releases(u, x, k)'
      BY <1>1 DEF Releases
    <3> QED
      BY <1>4, <1>6, <3>1, <3>2, <3>3, <3>4 DEF InCall
  <2> QED
    BY <2>1, <2>2
<1>8. ASSUME NEW o \in Objects PROVE IsNew(u, o)' <=> IsNew(u, o)
  BY <1>1 DEF IsNew
<1> QED
  BY <1>7, <1>8

-----------------------------------------------------------------------------
\* The counted pointers: how a call goes on.

\* The first step is done.
LEMMA TailFollows ==
  ASSUME NEW s \in Seq(PointerOps), NEW k, NEW plan, Len(plan) \in Nat,
         Follows(s, k, plan)
  PROVE  /\ Tail(s) \in Seq(PointerOps) /\ Len(Tail(s)) = Len(s) - 1
         /\ Len(s) # k => Follows(Tail(s), k, plan)
         /\ Len(s) = k /\ k > 1 => Follows(Tail(s), k - 1, plan)
         /\ Len(s) = k /\ k = 1 => Tail(s) = <<>>
<1> DEFINE r == Tail(s)
<1>1. s # <<>> /\ Len(s) \in Nat /\ k \in Nat
  BY FollowsHead
<1>2. /\ r \in Seq(PointerOps) /\ Len(r) = Len(s) - 1
      /\ \A i \in 1 .. Len(r) : r[i] = s[i + 1]
  BY <1>1
<1> HIDE DEF r
<1>3. /\ Len(s) # k => Follows(r, k, plan)
      /\ Len(s) = k /\ k > 1 => Follows(r, k - 1, plan)
  BY <1>2, FollowsOn
<1>4. Len(s) = k /\ k = 1 => r = <<>>
  BY <1>1, <1>2
<1> QED
  BY <1>2, <1>3, <1>4 DEF r

\* What GoesOn changes.
LEMMA GoneOn ==
  ASSUME PointerTypes, NEW t \in PointerThreads, NEW rest \in Seq(PointerOps),
         Pointer!GoesOn(t, rest)
  PROVE  /\ todo'[t] = rest
         /\ rest # <<>> => reads'[t] = reads[t] /\ writes'[t] = writes[t]
         /\ rest = <<>> => reads'[t] = {} /\ writes'[t] = {}
         /\ \A u \in PointerThreads : u # t =>
              todo'[u] = todo[u] /\ reads'[u] = reads[u] /\ writes'[u] = writes[u]
         /\ calls' = calls /\ mishaps' = mishaps
         /\ todo' \in [PointerThreads -> Seq(PointerOps)]
         /\ reads' \in [PointerThreads -> SUBSET (Variables \cup Objects)]
         /\ writes' \in [PointerThreads -> SUBSET (Variables \cup Objects)]
BY DEF PointerTypes, Pointer!TypeOK, Pointer!GoesOn

\* What a step that there is may be.
LEMMA OpsAre ==
  ASSUME NEW s \in Seq(PointerOps), s # <<>>
  PROVE  /\ s[1][2] \in Pointer!Pointers
         /\ s[1][1] \in {"upcount", "downcount", "delete"} => s[1] = <<s[1][1], s[1][2]>>
         /\ s[1][1] \in {"set", "compare"} =>
              /\ s[1] = <<s[1][1], s[1][2], s[1][3]>>
              /\ s[1][3] \in Pointer!Pointers \cup {NULL}
         /\ s[1][1] \in {"upcount", "downcount", "delete", "set", "compare"}
<1>1. s[1] \in PointerOps
  OBVIOUS
<1> QED
  BY <1>1 DEF PointerOps

\* A call goes on in the midst of destructions.
LEMMA DestroyingStays ==
  ASSUME NEW t \in PointerThreads, NEW x \in Variables \cup Objects, NEW k \in 1 .. 8,
         writes[t] = {x},
         x \notin reads[t] /\ HeldBy(t, x),
         Copies(t, x, k) \/ AssignsNew(t, x, k) \/ Releases(t, x, k),
         Len(todo[t]) # k,
         \A plan : Len(plan) \in Nat /\ Follows(todo[t], k, plan) =>
           Follows(todo'[t], k, plan),
         todo[t] \in Seq(PointerOps), todo'[t] \in Seq(PointerOps),
         reads'[t] = reads[t], writes'[t] = writes[t],
         p'[t] = p[t], \A v \in Variables : p'[v] = p[v]
  PROVE  /\ InCall(t)'
         /\ AssigningNew(todo'[t], t) <=> AssigningNew(todo[t], t)
<1>1. HeldBy(t, x)' /\ x \notin reads'[t] /\ writes'[t] = {x}
  BY DEF HeldBy
<1>2. CASE Copies(t, x, k)
  <2>1. PICK y \in Variables \cup Objects : Follows(todo[t], k, CopyPlan(t, x, y))
    BY <1>2 DEF Copies
  <2>2. k \in {1, 4} /\ Follows(todo'[t], k, CopyPlan(t, x, y))
    BY <1>2, <2>1, PlanLengths DEF Copies
  <2>3. Copies(t, x, k)'
    BY <2>2 DEF Copies
  <2>4. k \in Nat
    OBVIOUS
  <2> QED
    BY <1>1, <2>1, <2>2, <2>3, <2>4, NewSteps DEF InCall
<1>3. CASE AssignsNew(t, x, k)
  <2>1. k = 3 /\ Follows(todo[t], k, NewPlan(t, x)) /\ p[t] \in Objects
    BY <1>3 DEF AssignsNew
  <2>2. Follows(todo'[t], k, NewPlan(t, x))
    BY <2>1, PlanLengths
  <2>3. AssignsNew(t, x, k)'
    BY <2>1, <2>2 DEF AssignsNew
  <2>4. k \in Nat /\ k >= 2
    BY <2>1
  <2>5. AssigningNew(todo'[t], t) /\ AssigningNew(todo[t], t)
    BY <2>1, <2>2, <2>4, NewSteps
  <2> QED
    BY <1>1, <2>3, <2>5 DEF InCall
<1>4. CASE Releases(t, x, k)
  <2>1. k = 1 /\ Follows(todo[t], k, ReleasePlan(x)) /\ p[t] = NULL
    BY <1>4 DEF Releases
  <2>2. Follows(todo'[t], k, ReleasePlan(x))
    BY <2>1, PlanLengths
  <2>3. Releases(t, x, k)'
    BY <2>1, <2>2 DEF Releases
  <2>4. k \in Nat
    OBVIOUS
  <2> QED
    BY <1>1, <2>1, <2>2, <2>3, <2>4, NewSteps DEF InCall
<1> QED
  BY <1>2, <1>3, <1>4

\* The call of a thread that has one.
LEMMA CallIs ==
  ASSUME NEW t, InCall(t), todo[t] # <<>>
  PROVE  \E x \in Variables \cup Objects, k \in 1 .. 8 :
           /\ writes[t] = {x}
           /\ \/ Constructs(t, x, k)
              \/ /\ x \notin reads[t] /\ HeldBy(t, x)
                 /\ Copies(t, x, k) \/ AssignsNew(t, x, k) \/ Releases(t, x, k)
BY DEF InCall

\* The first step by the plan: where it is none of a plan, it is of a destruction.
LEMMA CopyHead ==
  ASSUME NEW t, NEW x, NEW y, NEW k, NEW s \in Seq(PointerOps),
         Follows(s, k, CopyPlan(t, x, y))
  PROVE  /\ k \in 1 .. 8 /\ s # <<>> /\ Len(s) \in Nat
         /\ Len(s) # k => s[1][1] \in {"delete", "downcount"}
         /\ Len(s) = k =>
              /\ k = 1 => s[1] = <<"set", t, NULL>>
              /\ k = 2 => s[1] = <<"downcount", t>> /\ s[2] = <<"set", t, NULL>>
              /\ k = 3 => s[1] = <<"upcount", x>>
              /\ k = 4 => s[1] = <<"set", x, t>> /\ s[2] = <<"upcount", x>>
              /\ k = 5 => s[1] = <<"downcount", x>> /\ s[2] = <<"set", x, t>>
              /\ k = 6 => s[1] = <<"compare", x, t>>
              /\ k = 7 => s[1] = <<"upcount", t>>
              /\ k = 8 => s[1] = <<"set", t, y>> /\ s[2] = <<"upcount", t>>
<1> DEFINE f == CopyPlan(t, x, y)
<1>1. /\ Len(f) = 8 /\ f[1] = <<"set", t, NULL>> /\ f[2] = <<"downcount", t>>
      /\ f[3] = <<"upcount", x>> /\ f[4] = <<"set", x, t>> /\ f[5] = <<"downcount", x>>
      /\ f[6] = <<"compare", x, t>> /\ f[7] = <<"upcount", t>> /\ f[8] = <<"set", t, y>>
  BY DEF CopyPlan
<1> HIDE DEF f
<1>2. Follows(s, k, f) /\ Len(f) \in Nat
  BY <1>1 DEF f
<1>3. /\ s # <<>> /\ Len(s) \in Nat
      /\ Len(s) # k =>
           \E o \in Objects :
             \/ s[1] = <<"delete", o>>
             \/ s[1] = <<"downcount", o>> /\ s[2] = <<"delete", o>> /\ Len(s) - k > 1
      /\ Len(s) = k => s[1] = f[k] /\ (k > 1 => s[2] = f[k - 1])
  BY <1>2, FollowsHead
<1>4. k \in 1 .. 8
  BY <1>1, <1>2 DEF Follows
<1>5. Len(s) # k => s[1][1] \in {"delete", "downcount"}
  BY <1>3
<1> QED
  BY <1>1, <1>3, <1>4, <1>5

\* The same for a new object.
LEMMA NewHead ==
  ASSUME NEW t, NEW x, NEW k, NEW s \in Seq(PointerOps), Follows(s, k, NewPlan(t, x))
  PROVE  /\ k \in 1 .. 5 /\ s # <<>> /\ Len(s) \in Nat
         /\ Len(s) # k => s[1][1] \in {"delete", "downcount"}
         /\ Len(s) = k =>
              /\ k = 1 => s[1] = <<"set", t, NULL>>
              /\ k = 2 => s[1] = <<"upcount", x>>
              /\ k = 3 => s[1] = <<"set", x, t>> /\ s[2] = <<"upcount", x>>
              /\ k = 4 => s[1] = <<"downcount", x>> /\ s[2] = <<"set", x, t>>
              /\ k = 5 => s[1] = <<"compare", x, t>>
<1> DEFINE f == NewPlan(t, x)
<1>1. /\ Len(f) = 5 /\ f[1] = <<"set", t, NULL>> /\ f[2] = <<"upcount", x>>
      /\ f[3] = <<"set", x, t>> /\ f[4] = <<"downcount", x>> /\ f[5] = <<"compare", x, t>>
  BY DEF NewPlan
<1> HIDE DEF f
<1>2. Follows(s, k, f) /\ Len(f) \in Nat
  BY <1>1 DEF f
<1>3. /\ s # <<>> /\ Len(s) \in Nat
      /\ Len(s) # k =>
           \E o \in Objects :
             \/ s[1] = <<"delete", o>>
             \/ s[1] = <<"downcount", o>> /\ s[2] = <<"delete", o>> /\ Len(s) - k > 1
      /\ Len(s) = k => s[1] = f[k] /\ (k > 1 => s[2] = f[k - 1])
  BY <1>2, FollowsHead
<1>4. k \in 1 .. 5
  BY <1>1, <1>2 DEF Follows
<1>5. Len(s) # k => s[1][1] \in {"delete", "downcount"}
  BY <1>3
<1> QED
  BY <1>1, <1>3, <1>4, <1>5

\* The same for a release.
LEMMA ReleaseHead ==
  ASSUME NEW x, NEW k, NEW s \in Seq(PointerOps), Follows(s, k, ReleasePlan(x))
  PROVE  /\ k \in 1 .. 2 /\ s # <<>> /\ Len(s) \in Nat
         /\ Len(s) # k => s[1][1] \in {"delete", "downcount"}
         /\ Len(s) = k =>
              /\ k = 1 => s[1] = <<"set", x, NULL>>
              /\ k = 2 => s[1] = <<"downcount", x>> /\ s[2] = <<"set", x, NULL>>
<1> DEFINE f == ReleasePlan(x)
<1>1. Len(f) = 2 /\ f[1] = <<"set", x, NULL>> /\ f[2] = <<"downcount", x>>
  BY DEF ReleasePlan
<1> HIDE DEF f
<1>2. Follows(s, k, f) /\ Len(f) \in Nat
  BY <1>1 DEF f
<1>3. /\ s # <<>> /\ Len(s) \in Nat
      /\ Len(s) # k =>
           \E o \in Objects :
             \/ s[1] = <<"delete", o>>
             \/ s[1] = <<"downcount", o>> /\ s[2] = <<"delete", o>> /\ Len(s) - k > 1
      /\ Len(s) = k => s[1] = f[k] /\ (k > 1 => s[2] = f[k - 1])
  BY <1>2, FollowsHead
<1>4. k \in 1 .. 2
  BY <1>1, <1>2 DEF Follows
<1>5. Len(s) # k => s[1][1] \in {"delete", "downcount"}
  BY <1>3
<1> QED
  BY <1>1, <1>3, <1>4, <1>5

\* The same for the construction of a variable.
LEMMA ConstructHead ==
  ASSUME NEW x, NEW y, NEW k, NEW s \in Seq(PointerOps), Len(s) = k,
         Follows(s, k, ConstructPlan(x, y))
  PROVE  /\ k \in 1 .. 2
         /\ k = 1 => s[1] = <<"upcount", x>>
         /\ k = 2 => s[1] = <<"set", x, y>> /\ s[2] = <<"upcount", x>>
<1> DEFINE f == ConstructPlan(x, y)
<1>1. Len(f) = 2 /\ f[1] = <<"upcount", x>> /\ f[2] = <<"set", x, y>>
  BY DEF ConstructPlan
<1> HIDE DEF f
<1>2. Follows(s, k, f) /\ Len(f) \in Nat
  BY <1>1 DEF f
<1>3. s[1] = f[k] /\ (k > 1 => s[2] = f[k - 1])
  BY <1>2, FollowsHead
<1>4. k \in 1 .. 2
  BY <1>1, <1>2 DEF Follows
<1> QED
  BY <1>1, <1>3, <1>4

\* With the plan's steps only, nothing is to be deleted.
LEMMA NoneDoomed ==
  ASSUME NEW s \in Seq(PointerOps), NEW k, NEW t, NEW x, NEW y, NEW plan,
         \/ plan = CopyPlan(t, x, y) \/ plan = NewPlan(t, x)
         \/ plan = ReleasePlan(x) \/ plan = ConstructPlan(x, y),
         Follows(s, k, plan), Len(s) = k
  PROVE  DoomedIn(s) = {}
<1>1. OnlyAssigns(plan, t, x)
  BY PlanAssigns
<1>2. /\ k \in Nat /\ k <= Len(plan) /\ Len(plan) \in Nat
      /\ \A i \in 1 .. k : s[k + 1 - i] = plan[i]
  BY PlanLengths DEF Follows
<1>3. ASSUME NEW o, NEW i \in 1 .. k, s[i] = <<"delete", o>> PROVE FALSE
  <2>1. k + 1 - i \in 1 .. k /\ k + 1 - (k + 1 - i) = i /\ k + 1 - i \in 1 .. Len(plan)
    BY <1>2
  <2>2. plan[k + 1 - i] = <<"delete", o>>
    BY <1>2, <1>3, <2>1
  <2> QED
    BY <1>1, <2>1, <2>2 DEF OnlyAssigns
<1>4. DOMAIN s = 1 .. k
  OBVIOUS
<1> QED
  BY <1>3, <1>4 DEF DoomedIn

-----------------------------------------------------------------------------
\* The counted pointers: each step of a call.

\* A pointer is assigned: before its object is counted, what is assigned has a
\* reference or is new.
LEMMA SetMoves ==
  ASSUME PointerTypes, InOrder, NEW t \in PointerThreads, NEW z, NEW y,
         todo[t] # <<>>, todo[t][1] = <<"set", z, y>>,
         p' = [p EXCEPT ![z] = IF y = NULL THEN NULL ELSE p[y]],
         Pointer!GoesOn(t, Tail(todo[t]))
  PROVE  /\ z \in {t} \cup writes[t]
         /\ y # NULL =>
              /\ Len(todo[t]) > 1 /\ todo[t][2] = <<"upcount", z>>
              /\ \/ p[y] = NULL
                 \/ y \in Pointer!References(p[y])
                 \/ y = t /\ IsNew(t, p[t])
         /\ AssigningNew(todo[t], t) => z # t
         /\ InCall(t)'
         /\ AssigningNew(todo'[t], t) <=> AssigningNew(todo[t], t)
<1> DEFINE s == todo[t]
           r == Tail(s)
<1>1. s \in Seq(PointerOps) /\ InCall(t) /\ s # <<>> /\ r \in Seq(PointerOps)
  BY DEF PointerTypes, InOrder
<1>2. s[1][1] = "set" /\ s[1][2] = z /\ s[1][3] = y
  OBVIOUS
<1>3. /\ todo'[t] = r
      /\ r # <<>> => reads'[t] = reads[t] /\ writes'[t] = writes[t]
      /\ r = <<>> => reads'[t] = {} /\ writes'[t] = {}
  BY <1>1, GoneOn
<1>4. PICK x \in Variables \cup Objects, k \in 1 .. 8 :
        /\ writes[t] = {x}
        /\ \/ Constructs(t, x, k)
           \/ /\ x \notin reads[t] /\ HeldBy(t, x)
              /\ Copies(t, x, k) \/ AssignsNew(t, x, k) \/ Releases(t, x, k)
  BY <1>1, CallIs
<1>5. t # x /\ t \notin Variables /\ t \notin Objects /\ t \in Pointer!Pointers
      /\ x \in Pointer!Pointers /\ x # NULL /\ t # NULL
  BY PointerNames
<1>6. p \in [Pointer!Pointers -> Objects \cup {NULL}]
      /\ reads[t] \subseteq Variables \cup Objects
  BY DEF PointerTypes, Pointer!TypeOK
<1>7. /\ z \in Pointer!Pointers =>
           p'[z] = IF y = NULL THEN NULL ELSE p[y]
      /\ \A q \in Pointer!Pointers : q # z => p'[q] = p[q]
  BY <1>6
<1>8. Len(r) = Len(s) - 1 /\ Len(s) \in Nat
  BY <1>1
<1>9. k \in Nat
  OBVIOUS
<1> HIDE DEF s, r
<1>10. CASE Constructs(t, x, k)
  <2>1. PICK c \in Variables \cup Objects :
          /\ Follows(s, k, ConstructPlan(x, c))
          /\ (c = x /\ p[x] = NULL) \/ Reached(reads[t] \ {x}, c)
          /\ k = 1 => p[x] = p[c]
    BY <1>10 DEF Constructs, s
  <2>2. Len(s) = k /\ x \in Variables /\ p[t] = NULL
    BY <1>10 DEF Constructs, s
  <2>3. k = 2 /\ z = x /\ y = c /\ s[2] = <<"upcount", x>>
    <3>1. k \in 1 .. 2 /\ (k = 1 => s[1] = <<"upcount", x>>)
          /\ (k = 2 => s[1] = <<"set", x, c>> /\ s[2] = <<"upcount", x>>)
      BY <1>1, <2>1, <2>2, ConstructHead DEF s
    <3> QED
      BY <1>2, <3>1 DEF s
  <2>4. Follows(r, 1, ConstructPlan(x, c)) /\ r # <<>>
    <3>1. Len(ConstructPlan(x, c)) \in Nat
      BY PlanLengths
    <3>5. s \in Seq(PointerOps) /\ Len(s) = k /\ k > 1 /\ Follows(s, k, ConstructPlan(x, c))
      BY <1>1, <2>1, <2>2, <2>3
    <3>2. Follows(r, k - 1, ConstructPlan(x, c))
      BY <3>1, <3>5, TailFollows DEF r
    <3>4. k - 1 = 1
      BY <2>3
    <3>3. r # <<>>
      BY <1>8, <2>2, <2>3
    <3> QED
      BY <3>2, <3>3, <3>4
  <2>5. ~AssigningNew(s, t) /\ ~AssigningNew(r, t)
    <3>1. 1 \in Nat
      OBVIOUS
    <3>2. ~AssigningNew(s, t)
      BY <1>1, <1>9, <2>1, NewSteps DEF s
    <3>3. ~AssigningNew(r, t)
      BY <1>1, <2>4, <3>1, NewSteps DEF r
    <3> QED
      BY <3>2, <3>3
  <2>6. c \in Pointer!Pointers /\ c # NULL /\ c # t
    BY PointerNames
  <2>7. p[c] = NULL \/ c \in Pointer!References(p[c])
    <3>1. CASE c = x /\ p[x] = NULL
      BY <3>1
    <3>2. CASE Reached(reads[t] \ {x}, c)
      <4>1. DoomedIn(s) = {}
        BY <1>1, <2>1, <2>2, NoneDoomed DEF s
      <4>2. UncountedIn(s) \subseteq {t} \cup {x}
        BY <1>1, <1>4, <4>1, UncountedOwn DEF s
      <4>3. PICK M : M = reads[t] \ {x}
        OBVIOUS
      <4>4. M \subseteq reads[t] \cup writes[t] /\ \A v \in M : v \notin UncountedIn(s)
        BY <1>5, <1>6, <4>2, <4>3
      <4> QED
        BY <3>2, <4>3, <4>4, ReachedIsCounted DEF s
    <3> QED
      BY <2>1, <3>1, <3>2
  <2>8. p'[x] = p[c] /\ p'[c] = p[c] /\ p'[t] = NULL
    BY <1>5, <1>6, <1>7, <2>1, <2>2, <2>3, <2>6
  <2>9. (c = x /\ p'[x] = NULL) \/ Reached(reads[t] \ {x}, c)'
    <3>1. CASE c = x /\ p[x] = NULL
      BY <2>8, <3>1
    <3>2. CASE Reached(reads[t] \ {x}, c)
      <4>1. \A w \in (reads[t] \ {x}) \cap Variables : p'[w] = p[w]
        BY <1>7, <2>3, PointerNames
      <4> QED
        BY <1>3, <2>4, <3>2, <4>1 DEF Reached
    <3> QED
      BY <2>1, <3>1, <3>2
  <2>10. Constructs(t, x, 1)'
    BY <1>3, <1>8, <2>2, <2>3, <2>4, <2>8, <2>9 DEF Constructs
  <2>11. InCall(t)'
    BY <1>3, <1>4, <2>4, <2>10 DEF InCall
  <2>12. Len(s) > 1
    BY <2>2, <2>3
  <2> QED
    BY <1>3, <1>4, <2>3, <2>5, <2>6, <2>7, <2>11, <2>12 DEF s
<1>11. CASE Copies(t, x, k) /\ x \notin reads[t] /\ HeldBy(t, x)
  <2>1. PICK c \in Variables \cup Objects :
          /\ Follows(s, k, CopyPlan(t, x, c))
          /\ k >= 7 => Reached(reads[t] \cup writes[t], c)
          /\ k = 7 => p[t] = p[c]
          /\ k = 3 => p[x] = p[t]
    BY <1>11 DEF Copies, s
  <2>2. /\ Len(s) = k /\ k \in {8, 4, 1}
        /\ k = 8 => z = t /\ y = c /\ s[2] = <<"upcount", t>>
        /\ k = 4 => z = x /\ y = t /\ s[2] = <<"upcount", x>>
        /\ k = 1 => z = t /\ y = NULL
    <3>0. k = 1 \/ k = 2 \/ k = 3 \/ k = 4 \/ k = 5 \/ k = 6 \/ k = 7 \/ k = 8
      OBVIOUS
    <3> QED
      BY <1>1, <1>2, <2>1, <3>0, CopyHead DEF s
  <2>3. Len(CopyPlan(t, x, c)) \in Nat
    BY PlanLengths
  <2>4. /\ k # 1 => Follows(r, k - 1, CopyPlan(t, x, c)) /\ k - 1 \in Nat /\ r # <<>>
        /\ k = 1 => r = <<>>
    <3>1. k # 1 => k > 1 /\ k - 1 \in Nat /\ r # <<>>
      BY <1>8, <2>2
    <3> QED
      BY <1>1, <2>1, <2>2, <2>3, <3>1, TailFollows DEF s, r
  <2>5. ~AssigningNew(s, t) /\ ~AssigningNew(r, t)
    <3>2. ~AssigningNew(s, t)
      BY <1>1, <1>9, <2>1, NewSteps DEF s
    <3>3. ~AssigningNew(r, t)
      BY <1>1, <2>4, NewSteps DEF r
    <3> QED
      BY <3>2, <3>3
  <2>6. c \in Pointer!Pointers /\ c # NULL /\ c # t
    BY PointerNames
  <2>7. UncountedIn(s) \subseteq {t} \cup {x}
    <3>1. DoomedIn(s) = {}
      BY <1>1, <2>1, <2>2, NoneDoomed DEF s
    <3> QED
      BY <1>1, <1>4, <3>1, UncountedOwn DEF s
  <2>8. CASE k = 8
    <3>0. s \in Seq(PointerOps) /\ Follows(s, k, CopyPlan(t, x, c)) /\ Len(s) = k /\ t # x
      BY <1>1, <1>5, <2>1, <2>2
    <3>1. x \notin UncountedIn(s)
      <4>1. k >= 5
        BY <2>8
      <4> QED
        BY <3>0, <4>1, CopyLeaves
    <3>2. PICK M : M = reads[t] \cup writes[t]
      OBVIOUS
    <3>3. \A v \in M : v \notin UncountedIn(s)
      BY <1>4, <1>5, <1>6, <2>7, <3>1, <3>2
    <3>4. Reached(M, c)
      BY <2>1, <2>8, <3>2
    <3>5. c \in Pointer!References(p[c])
      BY <3>2, <3>3, <3>4, ReachedIsCounted DEF s
    <3>6. p'[t] = p[c] /\ p'[c] = p[c] /\ p'[x] = p[x]
      BY <1>5, <1>7, <2>2, <2>6, <2>8
    <3>7. Reached(reads[t] \cup writes[t], c)'
      <4>1. \A w \in M \cap Variables : p'[w] = p[w]
        BY <1>5, <1>7, <2>2, <2>8, PointerNames
      <4>2. M = reads'[t] \cup writes'[t]
        BY <1>3, <2>4, <2>8, <3>2
      <4> QED
        BY <3>4, <4>1, <4>2 DEF Reached
    <3>8. 7 \in 1 .. 8 /\ k - 1 = 7 /\ Len(r) = 7
      BY <1>8, <2>2, <2>8
    <3>9. Follows(r, 7, CopyPlan(t, x, c))
      BY <2>4, <2>8, <3>8
    <3>10. Copies(t, x, 7)'
      BY <1>3, <3>6, <3>7, <3>8, <3>9 DEF Copies
    <3>11. HeldBy(t, x)'
      <4>1. \A v \in Variables \cap reads[t] : p'[v] = p[v]
        BY <1>5, <1>7, <2>2, <2>8, PointerNames
      <4> QED
        BY <1>3, <1>11, <2>4, <2>8, <4>1 DEF HeldBy
    <3>12. InCall(t)'
      BY <1>3, <1>4, <1>11, <2>4, <2>8, <3>8, <3>10, <3>11 DEF InCall
    <3> QED
      BY <1>3, <2>2, <2>5, <2>8, <3>5, <3>12 DEF s
  <2>9. CASE k = 4
    <3>0. s \in Seq(PointerOps) /\ Follows(s, k, CopyPlan(t, x, c)) /\ Len(s) = k /\ t # x
      BY <1>1, <1>5, <2>1, <2>2
    <3>1. t \notin UncountedIn(s)
      <4>1. k \in 2 .. 6
        BY <2>9
      <4> QED
        BY <3>0, <4>1, CopyLeaves
    <3>2. t \in Pointer!References(p[t])
      <4>1. ASSUME NEW u \in PointerThreads PROVE t \notin UncountedIn(todo[u])
        <5>1. CASE u = t
          BY <3>1, <5>1 DEF s
        <5>2. CASE u # t
          <6>1. t \notin Own(u) /\ InCall(u)
            BY <5>2, OwnIsOwn DEF Own, InOrder
          <6> QED
            BY <6>1, UncountedOwn DEF Own
        <5> QED
          BY <5>1, <5>2
      <4> QED
        BY <1>5, <4>1, ReferenceIs
    <3>3. p'[x] = p[t] /\ p'[t] = p[t]
      BY <1>5, <1>7, <2>2, <2>9
    <3>4. 3 \in 1 .. 8 /\ k - 1 = 3 /\ Len(r) = 3
      BY <1>8, <2>2, <2>9
    <3>5. Follows(r, 3, CopyPlan(t, x, c))
      BY <2>4, <2>9, <3>4
    <3>6. Copies(t, x, 3)'
      BY <1>3, <3>3, <3>4, <3>5 DEF Copies
    <3>7. HeldBy(t, x)'
      <4>1. \A v \in Variables \cap reads[t] : p'[v] = p[v]
        BY <1>5, <1>7, <1>11, <2>2, <2>9, PointerNames
      <4> QED
        BY <1>3, <1>11, <2>4, <2>9, <4>1 DEF HeldBy
    <3>8. InCall(t)'
      BY <1>3, <1>4, <1>11, <2>4, <2>9, <3>4, <3>6, <3>7 DEF InCall
    <3> QED
      BY <1>3, <1>4, <2>2, <2>5, <2>9, <3>2, <3>8 DEF s
  <2>10. CASE k = 1
    <3>1. p'[t] = NULL
      BY <1>5, <1>7, <2>2, <2>10
    <3>2. InCall(t)'
      BY <1>3, <2>4, <2>10, <3>1 DEF InCall
    <3> QED
      BY <1>3, <2>2, <2>5, <2>10, <3>2 DEF s
  <2> QED
    BY <2>2, <2>8, <2>9, <2>10
<1>12. CASE AssignsNew(t, x, k) /\ x \notin reads[t] /\ HeldBy(t, x)
  <2>1. k >= 2 /\ p[t] \in Objects /\ Follows(s, k, NewPlan(t, x))
    BY <1>12 DEF AssignsNew, s
  <2>2. Len(s) = k /\ k = 3 /\ z = x /\ y = t /\ s[2] = <<"upcount", x>>
    <3>1. k = 2 \/ k = 3 \/ k = 4 \/ k = 5
      BY <1>1, <2>1, NewHead DEF s
    <3> QED
      BY <1>1, <1>2, <2>1, <3>1, NewHead DEF s
  <2>3. Follows(r, 2, NewPlan(t, x)) /\ r # <<>> /\ Len(r) = 2
    <3>1. Len(NewPlan(t, x)) \in Nat
      BY DEF NewPlan
    <3>2. k > 1 /\ k - 1 = 2 /\ Len(r) = 2 /\ r # <<>>
      BY <1>8, <2>2
    <3> QED
      BY <1>1, <2>1, <2>2, <3>1, <3>2, TailFollows DEF s, r
  <2>4. AssigningNew(s, t) /\ AssigningNew(r, t)
    <3>1. AssigningNew(s, t)
      BY <1>1, <1>9, <2>1, NewSteps DEF s
    <3>2. 2 \in Nat /\ 2 >= 2
      OBVIOUS
    <3>3. AssigningNew(r, t)
      BY <1>1, <2>3, <3>2, NewSteps DEF r
    <3> QED
      BY <3>1, <3>3
  <2>5. IsNew(t, p[t])
    BY <2>4 DEF IsNew, s
  <2>6. p'[x] = p[t] /\ p'[t] = p[t]
    BY <1>5, <1>7, <2>2
  <2>7. 2 \in 1 .. 8
    OBVIOUS
  <2>8. AssignsNew(t, x, 2)'
    BY <1>3, <2>1, <2>3, <2>6 DEF AssignsNew
  <2>9. HeldBy(t, x)'
    <3>1. \A v \in Variables \cap reads[t] : p'[v] = p[v]
      BY <1>5, <1>7, <1>12, <2>2, PointerNames
    <3> QED
      BY <1>3, <1>12, <2>3, <3>1 DEF HeldBy
  <2>10. InCall(t)'
    BY <1>3, <1>4, <1>12, <2>3, <2>7, <2>8, <2>9 DEF InCall
  <2> QED
    BY <1>3, <1>4, <1>5, <2>2, <2>4, <2>5, <2>10 DEF s
<1>13. CASE Releases(t, x, k)
  <2>1. p[t] = NULL /\ Follows(s, k, ReleasePlan(x))
    BY <1>13 DEF Releases, s
  <2>2. Len(s) = k /\ k = 1 /\ z = x /\ y = NULL
    <3>1. k = 1 \/ k = 2
      BY <1>1, <2>1, ReleaseHead DEF s
    <3> QED
      BY <1>1, <1>2, <2>1, <3>1, ReleaseHead DEF s
  <2>3. r = <<>>
    BY <1>1, <1>8, <2>2
  <2>4. ~AssigningNew(s, t) /\ ~AssigningNew(r, t)
    <3>1. ~AssigningNew(s, t)
      BY <1>1, <1>9, <2>1, NewSteps DEF s
    <3>2. ~AssigningNew(r, t)
      BY <1>1, <1>9, <2>3, NewSteps DEF r
    <3> QED
      BY <3>1, <3>2
  <2>5. p'[t] = NULL
    BY <1>5, <1>7, <2>1, <2>2
  <2>6. InCall(t)'
    BY <1>3, <2>3, <2>5 DEF InCall
  <2> QED
    BY <1>3, <1>4, <2>2, <2>4, <2>6 DEF s
<1> QED
  BY <1>4, <1>10, <1>11, <1>12, <1>13

\* What is left to be deleted.
LEMMA TailDooms ==
  ASSUME NEW s \in Seq(PointerOps), s # <<>>, NEW o \in Objects
  PROVE  o \in DoomedIn(s) <=> s[1] = <<"delete", o>> \/ o \in DoomedIn(Tail(s))
<1> DEFINE r == Tail(s)
<1>1. /\ Len(s) \in Nat /\ Len(s) > 0 /\ DOMAIN s = 1 .. Len(s)
      /\ DOMAIN r = 1 .. Len(s) - 1
      /\ \A i \in 1 .. Len(s) - 1 : r[i] = s[i + 1] /\ i + 1 \in 1 .. Len(s)
      /\ \A i \in 1 .. Len(s) : i # 1 => i - 1 \in 1 .. Len(s) - 1 /\ (i - 1) + 1 = i
  OBVIOUS
<1> HIDE DEF r
<1>2. ASSUME NEW i \in 1 .. Len(s), s[i] = <<"delete", o>>
      PROVE  s[1] = <<"delete", o>> \/ \E j \in DOMAIN r : r[j] = <<"delete", o>>
  <2>1. CASE i # 1
    <3>1. i - 1 \in DOMAIN r /\ r[i - 1] = s[i]
      BY <1>1, <2>1
    <3> QED
      BY <1>2, <3>1
  <2> QED
    BY <1>2, <2>1
<1>3. 1 \in 1 .. Len(s)
  BY <1>1
<1> QED
  BY <1>1, <1>2, <1>3 DEF DoomedIn, r

\* Some steps are left.
LEMMA NotEmpty ==
  ASSUME NEW s \in Seq(PointerOps), NEW j, Len(s) = j, j # 0
  PROVE  s # <<>>
OBVIOUS

\* s compares z and y first, and goes on with r.
Compares(s, z, y, r) ==
  /\ s # <<>> /\ s[1] = <<"compare", z, y>>
  /\ r = SubSeq(s, IF p[z] = p[y] THEN 5 ELSE 2, Len(s))

\* Two pointers are compared: with equal ones the call has nothing more to assign, and
\* forgets its temporary, which a new object would not allow.
LEMMA CompareMoves ==
  ASSUME PointerTypes, InOrder, NEW t \in PointerThreads, NEW z, NEW y, NEW r,
         Compares(todo[t], z, y, r), p' = p, Pointer!GoesOn(t, r)
  PROVE  /\ z \in writes[t] /\ y = t
         /\ r \in Seq(PointerOps)
         /\ UncountedIn(r) = UncountedIn(todo[t])
         /\ DoomedIn(r) = DoomedIn(todo[t])
         /\ InCall(t)'
         /\ AssigningNew(r, t) <=> AssigningNew(todo[t], t)
<1> DEFINE s == todo[t]
<1>0. PICK m : /\ p[z] = p[y] => m = 5
               /\ p[z] # p[y] => m = 2
               /\ r = SubSeq(todo[t], m, Len(todo[t]))
  BY DEF Compares
<1>1. s \in Seq(PointerOps) /\ InCall(t) /\ s # <<>> /\ Len(s) \in Nat
  BY DEF PointerTypes, InOrder, Compares
<1>2. s[1] = <<"compare", z, y>> /\ s[1][1] = "compare" /\ s[1][2] = z /\ s[1][3] = y
  BY DEF Compares
<1>3. ASSUME r \in Seq(PointerOps), r # <<>>
      PROVE  todo'[t] = r /\ reads'[t] = reads[t] /\ writes'[t] = writes[t]
  BY <1>3, GoneOn
<1>4. PICK x \in Variables \cup Objects, k \in 1 .. 8 :
        /\ writes[t] = {x}
        /\ \/ Constructs(t, x, k)
           \/ /\ x \notin reads[t] /\ HeldBy(t, x)
              /\ Copies(t, x, k) \/ AssignsNew(t, x, k) \/ Releases(t, x, k)
  BY <1>1, CallIs
<1>5. t # x /\ t \in Pointer!Pointers /\ x \in Pointer!Pointers
  BY PointerNames
<1>6. k \in Nat
  OBVIOUS
<1>7. /\ Tail(s) = SubSeq(s, 2, Len(s)) /\ Tail(s) \in Seq(PointerOps)
      /\ Len(Tail(s)) = Len(s) - 1
  BY <1>1, TailIsSubSeq, HeadTailProperties
<1>8. UncountedIn(Tail(s)) = UncountedIn(s)
  <2>1. \A q \in Pointer!Pointers : q \in UncountedIn(s) <=> q \in UncountedIn(Tail(s))
    <3> TAKE q \in Pointer!Pointers
    <3>1. s[1] # <<"downcount", q>>
      BY <1>2
    <3> QED
      BY <1>1, <1>2, <3>1, UncountedRest
  <2>2. UncountedIn(s) \subseteq Pointer!Pointers
        /\ UncountedIn(Tail(s)) \subseteq Pointer!Pointers
    BY DEF UncountedIn
  <2> QED
    BY <2>1, <2>2
<1>9. DoomedIn(Tail(s)) = DoomedIn(s)
  <2>1. \A o \in Objects : o \in DoomedIn(s) <=> o \in DoomedIn(Tail(s))
    <3> TAKE o \in Objects
    <3>1. s[1] # <<"delete", o>>
      BY <1>2
    <3> QED
      BY <1>1, <3>1, TailDooms
  <2> QED
    BY <2>1 DEF DoomedIn
<1>10. /\ r = SubSeq(s, m, Len(s)) /\ InCall(t)
       /\ (p[z] = p[y] => m = 5) /\ (p[z] # p[y] => m = 2)
  BY <1>0, <1>1
<1> HIDE DEF s
<1>11. CASE Constructs(t, x, k)
  <2>1. PICK c \in Variables \cup Objects : Follows(s, k, ConstructPlan(x, c))
    BY <1>11 DEF Constructs, s
  <2>2. Len(s) = k
    BY <1>11 DEF Constructs, s
  <2> QED
    BY <1>1, <1>2, <2>1, <2>2, ConstructHead
<1>12. CASE Copies(t, x, k) /\ x \notin reads[t] /\ HeldBy(t, x)
  <2>1. PICK c \in Variables \cup Objects : Follows(s, k, CopyPlan(t, x, c))
    BY <1>12 DEF Copies, s
  <2>2. Len(s) = k /\ k = 6 /\ z = x /\ y = t
    <3>0. k = 1 \/ k = 2 \/ k = 3 \/ k = 4 \/ k = 5 \/ k = 6 \/ k = 7 \/ k = 8
      OBVIOUS
    <3> QED
      BY <1>1, <1>2, <2>1, <3>0, CopyHead
  <2>3. Len(CopyPlan(t, x, c)) \in Nat
    BY PlanLengths
  <2>4. ~AssigningNew(s, t)
    BY <1>1, <1>6, <2>1, NewSteps
  <2>5. CASE p[z] # p[y]
    <3>1. r = Tail(s)
      BY <1>7, <1>10, <2>5
    <3>2. Follows(s, k, CopyPlan(t, x, c)) /\ Len(s) = k /\ k > 1
      BY <2>1, <2>2
    <3>3. Follows(r, k - 1, CopyPlan(t, x, c))
      BY <1>1, <2>3, <3>1, <3>2, TailFollows
    <3>4. PICK j \in 1 .. 8 : j = k - 1 /\ j = 5 /\ j \in Nat
      BY <2>2
    <3>5. Follows(r, j, CopyPlan(t, x, c))
      BY <3>3, <3>4
    <3>11. Len(r) = j /\ r \in Seq(PointerOps)
      BY <1>7, <2>2, <3>1, <3>4
    <3>13. j # 0
      BY <3>4
    <3>12. r # <<>>
      BY <3>11, <3>13, NotEmpty
    <3>6. r # <<>> /\ Len(r) = j /\ r \in Seq(PointerOps)
      BY <3>11, <3>12
    <3>7. ~AssigningNew(r, t)
      BY <3>4, <3>5, <3>6, NewSteps
    <3>8. todo'[t] = r /\ reads'[t] = reads[t] /\ writes'[t] = writes[t]
      BY <1>3, <3>6
    <3>14. ~(j >= 7) /\ j # 7 /\ j # 3
      BY <3>4
    <3>10. Copies(t, x, j)'
      BY <3>5, <3>6, <3>8, <3>14 DEF Copies
    <3>9. InCall(t)'
      BY <1>4, <1>12, <3>8, <3>10 DEF InCall, HeldBy
    <3> QED
      BY <1>4, <1>8, <1>9, <2>2, <2>4, <3>1, <3>6, <3>7, <3>9 DEF s
  <2>6. CASE p[z] = p[y]
    <3>1. r = SubSeq(s, 5, Len(s)) /\ Len(s) = 6
      BY <1>10, <2>2, <2>6
    <3>2. r \in Seq(PointerOps) /\ Len(r) = 2 /\ \A i \in 1 .. Len(r) : r[i] = s[i + 4]
      <4>1. \A i \in 5 .. Len(s) : s[i] \in PointerOps
        BY <1>1
      <4>2. PICK l \in Int, n \in Int : l = 5 /\ n = Len(s)
        BY <3>1
      <4>3. /\ SubSeq(s, l, n) \in Seq(PointerOps)
            /\ Len(SubSeq(s, l, n)) = IF l <= n THEN n - l + 1 ELSE 0
            /\ \A i \in 1 .. n - l + 1 : SubSeq(s, l, n)[i] = s[l + i - 1]
        BY <4>1, <4>2, SubSeqProperties
      <4>4. n - l + 1 = 2 /\ l <= n /\ \A i \in 1 .. 2 : l + i - 1 = i + 4
        BY <3>1, <4>2
      <4>5. r = SubSeq(s, l, n)
        BY <3>1, <4>2
      <4> QED
        BY <4>3, <4>4, <4>5
    <3>4. PICK l \in Nat, j \in 1 .. 8 : l = 4 /\ j = 2 /\ j \in Nat /\ j = k - l
      BY <2>2
    <3>15. Len(r) = j /\ r \in Seq(PointerOps)
      BY <3>2, <3>4
    <3>17. j # 0
      BY <3>4
    <3>16. r # <<>>
      BY <3>15, <3>17, NotEmpty
    <3>13. r # <<>> /\ Len(r) = j
      BY <3>15, <3>16
    <3>3. Follows(r, j, CopyPlan(t, x, c))
      <4>1. Len(r) = Len(s) - l /\ k > l /\ \A i \in 1 .. Len(r) : r[i] = s[i + l]
        BY <2>2, <3>1, <3>2, <3>4
      <4>2. Follows(r, k - l, CopyPlan(t, x, c))
        BY <1>1, <2>1, <2>2, <2>3, <3>2, <4>1, FollowsOn
      <4> QED
        BY <3>4, <4>2
    <3>5. ~AssigningNew(r, t)
      BY <3>2, <3>3, <3>4, NewSteps
    <3>14. todo'[t] = r /\ reads'[t] = reads[t] /\ writes'[t] = writes[t]
      BY <1>3, <3>2, <3>13
    <3>6. Copies(t, x, j)'
      BY <3>3, <3>4, <3>13, <3>14 DEF Copies
    <3>7. InCall(t)'
      BY <1>4, <1>12, <3>6, <3>14 DEF InCall, HeldBy
    <3>8. DoomedIn(s) = {} /\ DoomedIn(r) = {}
      BY <1>1, <2>1, <2>2, <3>2, <3>3, <3>13, NoneDoomed
    <3>9. x \notin UncountedIn(s) /\ t \notin UncountedIn(s)
      <4>1. k >= 5 /\ k \in 2 .. 6
        BY <2>2
      <4> QED
        BY <1>1, <1>5, <2>1, <2>2, <4>1, CopyLeaves
    <3>10. x \notin UncountedIn(r) /\ t \notin UncountedIn(r)
      <4>1. j <= 2 /\ j \in 2 .. 6
        BY <3>4
      <4> QED
        BY <1>5, <3>2, <3>3, <3>13, <4>1, CopyLeaves
    <3>11. UncountedIn(s) = {}
      <4>1. UncountedIn(s) \subseteq {t} \cup writes[t] \cup DoomedIn(s)
        BY <1>1, UncountedOwn DEF s
      <4> QED
        BY <1>4, <3>8, <3>9, <4>1
    <3>12. UncountedIn(r) = {}
      <4>1. OnlyAssigns(CopyPlan(t, x, c), t, x)
        BY PlanAssigns
      <4>2. \A i \in 1 .. j : i \in 1 .. Len(CopyPlan(t, x, c))
        BY <2>3, <3>3 DEF Follows
      <4>3. PICK M : M = {t, x}
        OBVIOUS
      <4>4. /\ \A i \in 1 .. j : CopyPlan(t, x, c)[i][1] \in {"set", "upcount"}
                                   => CopyPlan(t, x, c)[i][2] \in M
            /\ \A i \in 1 .. j : CopyPlan(t, x, c)[i][1] # "delete"
        BY <4>1, <4>2, <4>3 DEF OnlyAssigns
      <4>5. UncountedIn(r) \subseteq M \cup DoomedIn(r)
        BY <2>3, <3>3, <3>15, <4>4, PlanUncounted
      <4> QED
        BY <3>8, <3>10, <4>3, <4>5
    <3> QED
      BY <1>4, <2>2, <2>4, <3>2, <3>5, <3>7, <3>8, <3>11, <3>12 DEF s
  <2> QED
    BY <2>5, <2>6
<1>13. CASE AssignsNew(t, x, k) /\ x \notin reads[t] /\ HeldBy(t, x)
  <2>1. k >= 2 /\ p[t] \in Objects /\ Follows(s, k, NewPlan(t, x))
    BY <1>13 DEF AssignsNew, s
  <2>2. Len(s) = k /\ k = 5 /\ z = x /\ y = t
    <3>1. k = 2 \/ k = 3 \/ k = 4 \/ k = 5
      BY <1>1, <2>1, NewHead
    <3> QED
      BY <1>1, <1>2, <2>1, <3>1, NewHead
  <2>3. AssigningNew(s, t)
    BY <1>1, <1>6, <2>1, NewSteps
  <2>4. p[z] # p[y]
    <3>1. IsNew(t, p[t])
      BY <2>3 DEF IsNew, s
    <3>2. p[x] = p[t] => x \in UncountedIn(s)
      BY <1>5, <2>1, <3>1 DEF InOrder, NoReference, s
    <3>3. k >= 4
      BY <2>2
    <3>4. x \notin UncountedIn(s)
      BY <1>1, <1>5, <2>1, <2>2, <3>3, NewLeaves
    <3> QED
      BY <2>2, <3>2, <3>4
  <2>5. r = Tail(s)
    BY <1>7, <1>10, <2>4
  <2>11. PICK j \in 1 .. 8 : j = 4 /\ j = k - 1 /\ j \in Nat /\ j >= 2
    BY <2>2
  <2>6. Follows(r, j, NewPlan(t, x))
    <3>1. Len(NewPlan(t, x)) \in Nat
      BY DEF NewPlan
    <3>2. Follows(s, k, NewPlan(t, x)) /\ Len(s) = k /\ k > 1
      BY <2>1, <2>2
    <3>3. Follows(r, k - 1, NewPlan(t, x))
      BY <1>1, <2>5, <3>1, <3>2, TailFollows
    <3> QED
      BY <2>11, <3>3
  <2>13. Len(r) = j /\ r \in Seq(PointerOps)
    BY <1>7, <2>2, <2>5, <2>11
  <2>15. j # 0
    BY <2>11
  <2>14. r # <<>>
    BY <2>13, <2>15, NotEmpty
  <2>7. r # <<>> /\ Len(r) = j /\ r \in Seq(PointerOps)
    BY <2>13, <2>14
  <2>8. AssigningNew(r, t)
    BY <2>6, <2>7, <2>11, NewSteps
  <2>12. todo'[t] = r /\ reads'[t] = reads[t] /\ writes'[t] = writes[t]
    BY <1>3, <2>7
  <2>9. AssignsNew(t, x, j)'
    BY <2>1, <2>6, <2>7, <2>11, <2>12 DEF AssignsNew
  <2>10. InCall(t)'
    BY <1>4, <1>13, <2>9, <2>12 DEF InCall, HeldBy
  <2> QED
    BY <1>4, <1>8, <1>9, <2>2, <2>3, <2>5, <2>7, <2>8, <2>10 DEF s
<1>14. CASE Releases(t, x, k)
  <2>1. Follows(s, k, ReleasePlan(x))
    BY <1>14 DEF Releases, s
  <2> QED
    BY <1>1, <1>2, <2>1, ReleaseHead
<1> QED
  BY <1>4, <1>11, <1>12, <1>13, <1>14

\* What a thread may change has a counted reference, unless the thread leaves it
\* uncounted.
LEMMA OwnIsCounted ==
  ASSUME PointerTypes, InOrder, NEW t \in PointerThreads, NEW z \in Pointer!Pointers,
         z \in Own(t), z \notin UncountedIn(todo[t])
  PROVE  z \in Pointer!References(p[z])
<1>1. ASSUME NEW u \in PointerThreads, u # t PROVE z \notin UncountedIn(todo[u])
  <2>1. z \notin Own(u) /\ InCall(u)
    BY <1>1, OwnIsOwn DEF InOrder
  <2> QED
    BY <2>1, UncountedOwn DEF Own
<1> QED
  BY <1>1, ReferenceIs

\* What the next step uses exists: it is the thread's own, is reached, or has an object
\* that is referred to or new.
LEMMA HeadUses ==
  ASSUME PointerTypes, InOrder, NEW t \in PointerThreads, NEW h, h = todo[t][1],
         todo[t] # <<>>
  PROVE  /\ h[2] \in Own(t)
         /\ h[1] \in {"set", "compare"} /\ h[3] \in Objects => Pointer!References(h[3]) # {}
         /\ h[1] = "upcount" /\ p[h[2]] \in Objects =>
              Pointer!References(p[h[2]]) # {} \/ IsNew(t, p[h[2]])
<1> DEFINE s == todo[t]
<1>1. s \in Seq(PointerOps) /\ InCall(t) /\ s # <<>> /\ h = s[1]
  BY DEF PointerTypes, InOrder
<1>2. PICK x \in Variables \cup Objects, k \in 1 .. 8 :
        /\ writes[t] = {x}
        /\ \/ Constructs(t, x, k)
           \/ /\ x \notin reads[t] /\ HeldBy(t, x)
              /\ Copies(t, x, k) \/ AssignsNew(t, x, k) \/ Releases(t, x, k)
  BY <1>1, CallIs
<1>3. t # x /\ t \notin Variables /\ t \notin Objects /\ t \in Pointer!Pointers
      /\ x \in Pointer!Pointers /\ NULL \notin Objects
  BY PointerNames
<1>4. reads[t] \subseteq Variables \cup Objects
  BY DEF PointerTypes, Pointer!TypeOK
<1>5. k \in Nat
  OBVIOUS
<1>6. t \in Own(t) /\ x \in Own(t)
  BY <1>2 DEF Own
<1> HIDE DEF s
<1>7. ASSUME Len(s) # k, NEW plan, Len(plan) \in Nat, Follows(s, k, plan)
      PROVE  h[2] \in Own(t) /\ h[1] \notin {"set", "compare", "upcount"}
  <2>1. PICK o \in Objects :
          \/ s[1] = <<"delete", o>>
          \/ s[1] = <<"downcount", o>> /\ s[2] = <<"delete", o>> /\ Len(s) - k > 1
    BY <1>1, <1>7, FollowsHead
  <2>2. Len(s) > k /\ Len(s) \in Nat /\ DOMAIN s = 1 .. Len(s) /\ k >= 1
    BY <1>1, <1>7, FollowsHead
  <2>3. 1 \in DOMAIN s /\ 2 \in DOMAIN s
    BY <2>2
  <2>4. o \in DoomedIn(s)
    BY <2>1, <2>3 DEF DoomedIn
  <2>5. h[2] = o /\ h[1] \in {"delete", "downcount"}
    BY <1>1, <2>1
  <2> QED
    BY <2>4, <2>5 DEF Own, s
<1>8. CASE Constructs(t, x, k)
  <2>1. PICK c \in Variables \cup Objects :
          /\ Follows(s, k, ConstructPlan(x, c))
          /\ (c = x /\ p[x] = NULL) \/ Reached(reads[t] \ {x}, c)
          /\ k = 1 => p[x] = p[c]
    BY <1>8 DEF Constructs, s
  <2>2. Len(s) = k /\ x \in Variables
    BY <1>8 DEF Constructs, s
  <2>3. (h = <<"upcount", x>> /\ p[x] = p[c]) \/ h = <<"set", x, c>>
    <3>1. k = 1 \/ k = 2
      BY <1>1, <2>1, <2>2, ConstructHead
    <3> QED
      BY <1>1, <2>1, <2>2, <3>1, ConstructHead
  <2>4. CASE c = x /\ p[x] = NULL
    BY <1>3, <1>6, <2>2, <2>3, <2>4, PointerNames
  <2>5. CASE Reached(reads[t] \ {x}, c)
    <3>1. DoomedIn(s) = {}
      BY <1>1, <2>1, <2>2, NoneDoomed
    <3>2. UncountedIn(s) \subseteq {t} \cup {x}
      BY <1>1, <1>2, <3>1, UncountedOwn DEF s
    <3>3. PICK M : M = reads[t] \ {x}
      OBVIOUS
    <3>4. M \subseteq reads[t] \cup writes[t] /\ \A v \in M : v \notin UncountedIn(s)
      BY <1>3, <1>4, <3>2, <3>3
    <3>5. /\ c \in Pointer!References(p[c])
          /\ c \in Objects => Pointer!References(c) # {}
      BY <2>5, <3>3, <3>4, ReachedIsCounted DEF s
    <3> QED
      BY <1>6, <2>3, <3>5
  <2> QED
    BY <2>1, <2>4, <2>5
<1>9. CASE Copies(t, x, k)
  <2>1. PICK c \in Variables \cup Objects :
          /\ Follows(s, k, CopyPlan(t, x, c))
          /\ k >= 7 => Reached(reads[t] \cup writes[t], c)
          /\ k = 7 => p[t] = p[c]
          /\ k = 3 => p[x] = p[t]
    BY <1>9 DEF Copies, s
  <2>2. CASE Len(s) # k
    BY <1>7, <2>1, <2>2, PlanLengths
  <2>3. CASE Len(s) = k
    <3>1. /\ h[2] \in {t, x}
          /\ h[1] \in {"set", "compare"} /\ h[3] \in Objects => k = 8 /\ h[3] = c
          /\ h[1] = "upcount" => (k = 7 /\ h[2] = t) \/ (k = 3 /\ h[2] = x)
      <4>0. k = 1 \/ k = 2 \/ k = 3 \/ k = 4 \/ k = 5 \/ k = 6 \/ k = 7 \/ k = 8
        OBVIOUS
      <4>1. /\ k = 1 => h = <<"set", t, NULL>>
            /\ k = 2 => h = <<"downcount", t>>
            /\ k = 3 => h = <<"upcount", x>>
            /\ k = 4 => h = <<"set", x, t>>
            /\ k = 5 => h = <<"downcount", x>>
            /\ k = 6 => h = <<"compare", x, t>>
            /\ k = 7 => h = <<"upcount", t>>
            /\ k = 8 => h = <<"set", t, c>>
        BY <1>1, <2>1, <2>3, CopyHead
      <4> QED
        BY <1>3, <4>0, <4>1
    <3>2. DoomedIn(s) = {}
      BY <1>1, <2>1, <2>3, NoneDoomed
    <3>3. UncountedIn(s) \subseteq {t} \cup {x}
      BY <1>1, <1>2, <3>2, UncountedOwn DEF s
    <3>4. k >= 7 =>
            /\ c \in Pointer!References(p[c])
            /\ c \in Objects => Pointer!References(c) # {}
      <4> SUFFICES ASSUME k >= 7
                   PROVE  /\ c \in Pointer!References(p[c])
                          /\ c \in Objects => Pointer!References(c) # {}
        OBVIOUS
      <4>1. x \notin UncountedIn(s)
        <5>1. k >= 5
          OBVIOUS
        <5> QED
          BY <1>1, <1>3, <2>1, <2>3, <5>1, CopyLeaves
      <4>2. PICK M : M = reads[t] \cup writes[t]
        OBVIOUS
      <4>3. \A v \in M : v \notin UncountedIn(s)
        BY <1>2, <1>3, <1>4, <3>3, <4>1, <4>2
      <4>4. Reached(M, c)
        BY <2>1, <4>2
      <4> QED
        BY <4>2, <4>3, <4>4, ReachedIsCounted DEF s
    <3>5. k = 3 => t \in Pointer!References(p[t])
      <4> SUFFICES ASSUME k = 3 PROVE t \in Pointer!References(p[t])
        OBVIOUS
      <4>1. k \in 2 .. 6
        OBVIOUS
      <4>2. t \notin UncountedIn(s)
        BY <1>1, <1>3, <2>1, <2>3, <4>1, CopyLeaves
      <4> QED
        BY <1>3, <1>6, <4>2, OwnIsCounted DEF s
    <3>6. (k = 8 => k >= 7) /\ (k = 7 => k >= 7)
      OBVIOUS
    <3> QED
      BY <1>6, <2>1, <3>1, <3>4, <3>5, <3>6
  <2> QED
    BY <2>2, <2>3
<1>10. CASE AssignsNew(t, x, k)
  <2>1. /\ k >= 2 /\ p[t] \in Objects /\ Follows(s, k, NewPlan(t, x))
        /\ k = 2 => p[x] = p[t]
    BY <1>10 DEF AssignsNew, s
  <2>2. CASE Len(s) # k
    <3>1. Len(NewPlan(t, x)) \in Nat
      BY DEF NewPlan
    <3> QED
      BY <1>7, <2>1, <2>2, <3>1
  <2>3. CASE Len(s) = k
    <3>1. k = 2 \/ k = 3 \/ k = 4 \/ k = 5
      BY <1>1, <2>1, NewHead
    <3>2. /\ k = 2 => h = <<"upcount", x>>
          /\ k = 3 => h = <<"set", x, t>>
          /\ k = 4 => h = <<"downcount", x>>
          /\ k = 5 => h = <<"compare", x, t>>
      BY <1>1, <2>1, <2>3, NewHead
    <3>3. AssigningNew(s, t)
      BY <1>1, <1>5, <2>1, NewSteps
    <3>4. IsNew(t, p[t])
      BY <3>3 DEF IsNew, s
    <3> QED
      BY <1>3, <1>6, <2>1, <3>1, <3>2, <3>4
  <2> QED
    BY <2>2, <2>3
<1>11. CASE Releases(t, x, k)
  <2>1. Follows(s, k, ReleasePlan(x))
    BY <1>11 DEF Releases, s
  <2>2. CASE Len(s) # k
    <3>1. Len(ReleasePlan(x)) \in Nat
      BY DEF ReleasePlan
    <3> QED
      BY <1>7, <2>1, <2>2, <3>1
  <2>3. CASE Len(s) = k
    <3>1. k = 1 \/ k = 2
      BY <1>1, <2>1, ReleaseHead
    <3>2. h = <<"set", x, NULL>> \/ h = <<"downcount", x>>
      BY <1>1, <2>1, <2>3, <3>1, ReleaseHead
    <3> QED
      BY <1>3, <1>6, <3>2
  <2> QED
    BY <2>2, <2>3
<1> QED
  BY <1>2, <1>8, <1>9, <1>10, <1>11

\* A reference is counted.
LEMMA UpcountMoves ==
  ASSUME PointerTypes, InOrder, NEW t \in PointerThreads, NEW z,
         todo[t] # <<>>, todo[t][1] = <<"upcount", z>>, p' = p,
         Pointer!GoesOn(t, Tail(todo[t]))
  PROVE  /\ z \in {t} \cup writes[t]
         /\ AssigningNew(todo[t], t) => p[z] = p[t]
         /\ ~AssigningNew(Tail(todo[t]), t)
         /\ DoomedIn(todo[t]) = {}
         /\ z \notin UncountedIn(Tail(todo[t]))
         /\ InCall(t)'
<1> DEFINE s == todo[t]
           r == Tail(s)
<1>1. s \in Seq(PointerOps) /\ InCall(t) /\ s # <<>> /\ r \in Seq(PointerOps)
  BY DEF PointerTypes, InOrder
<1>2. s[1][1] = "upcount" /\ s[1][2] = z
  OBVIOUS
<1>3. /\ todo'[t] = r
      /\ r # <<>> => reads'[t] = reads[t] /\ writes'[t] = writes[t]
      /\ r = <<>> => reads'[t] = {} /\ writes'[t] = {}
  BY <1>1, GoneOn
<1>4. PICK x \in Variables \cup Objects, k \in 1 .. 8 :
        /\ writes[t] = {x}
        /\ \/ Constructs(t, x, k)
           \/ /\ x \notin reads[t] /\ HeldBy(t, x)
              /\ Copies(t, x, k) \/ AssignsNew(t, x, k) \/ Releases(t, x, k)
  BY <1>1, CallIs
<1>5. t # x /\ t \notin Variables /\ t \notin Objects /\ t \in Pointer!Pointers
      /\ x \in Pointer!Pointers /\ NULL \notin Objects
  BY PointerNames
<1>6. reads[t] \subseteq Variables \cup Objects
  BY DEF PointerTypes, Pointer!TypeOK
<1>7. Len(r) = Len(s) - 1 /\ Len(s) \in Nat
  BY <1>1
<1>8. k \in Nat
  OBVIOUS
<1> HIDE DEF s, r
<1>9. CASE Constructs(t, x, k)
  <2>1. PICK c \in Variables \cup Objects :
          /\ Follows(s, k, ConstructPlan(x, c))
          /\ (c = x /\ p[x] = NULL) \/ Reached(reads[t] \ {x}, c)
          /\ k = 1 => p[x] = p[c]
    BY <1>9 DEF Constructs, s
  <2>2. Len(s) = k /\ p[t] = NULL
    BY <1>9 DEF Constructs, s
  <2>3. k = 1 /\ z = x
    BY <1>1, <1>2, <2>1, <2>2, ConstructHead
  <2>4. r = <<>>
    BY <1>1, <1>7, <2>2, <2>3
  <2>5. ~AssigningNew(s, t) /\ ~AssigningNew(r, t)
    <3>1. ~AssigningNew(s, t)
      BY <1>1, <1>8, <2>1, NewSteps
    <3>2. ~AssigningNew(r, t)
      BY <1>1, <1>8, <2>4, NewSteps
    <3> QED
      BY <3>1, <3>2
  <2>6. DoomedIn(s) = {}
    BY <1>1, <2>1, <2>2, NoneDoomed
  <2>8. InCall(t)'
    BY <1>3, <2>2, <2>4 DEF InCall
  <2>9. z \notin UncountedIn(r)
    BY <2>4, UncountedInNone
  <2> QED
    BY <1>4, <2>3, <2>5, <2>6, <2>8, <2>9 DEF s, r
<1>10. CASE Copies(t, x, k) /\ x \notin reads[t] /\ HeldBy(t, x)
  <2>1. PICK c \in Variables \cup Objects :
          /\ Follows(s, k, CopyPlan(t, x, c))
          /\ k >= 7 => Reached(reads[t] \cup writes[t], c)
          /\ k = 7 => p[t] = p[c]
          /\ k = 3 => p[x] = p[t]
    BY <1>10 DEF Copies, s
  <2>2. /\ Len(s) = k /\ k \in {7, 3}
        /\ k = 7 => z = t
        /\ k = 3 => z = x
    <3>0. k = 1 \/ k = 2 \/ k = 3 \/ k = 4 \/ k = 5 \/ k = 6 \/ k = 7 \/ k = 8
      OBVIOUS
    <3> QED
      BY <1>1, <1>2, <2>1, <3>0, CopyHead
  <2>3. Len(CopyPlan(t, x, c)) \in Nat
    BY PlanLengths
  <2>4. PICK j \in 1 .. 8 : j = k - 1 /\ j \in Nat /\ j \in {6, 2}
    BY <2>2
  <2>5. Len(r) = j
    BY <1>7, <2>2, <2>4
  <2>6. j # 0
    BY <2>4
  <2>7. r # <<>>
    BY <1>1, <2>5, <2>6, NotEmpty
  <2>8. Follows(r, j, CopyPlan(t, x, c))
    <3>1. k > 1
      BY <2>2
    <3>2. Follows(r, k - 1, CopyPlan(t, x, c))
      BY <1>1, <2>1, <2>2, <2>3, <3>1, TailFollows DEF r
    <3> QED
      BY <2>4, <3>2
  <2>9. ~AssigningNew(s, t) /\ ~AssigningNew(r, t)
    <3>1. ~AssigningNew(s, t)
      BY <1>1, <1>8, <2>1, NewSteps
    <3>2. ~AssigningNew(r, t)
      BY <1>1, <2>4, <2>8, NewSteps
    <3> QED
      BY <3>1, <3>2
  <2>10. DoomedIn(s) = {}
    BY <1>1, <2>1, <2>2, NoneDoomed
  <2>12. Copies(t, x, j)'
    <3>1. ~(j >= 7) /\ j # 7 /\ j # 3
      BY <2>4
    <3> QED
      BY <1>3, <2>5, <2>8, <3>1 DEF Copies
  <2>13. InCall(t)'
    BY <1>3, <1>4, <1>10, <2>7, <2>12 DEF InCall, HeldBy
  <2>14. CASE k = 7
    <3>1. k >= 5 /\ j \in 2 .. 6
      BY <2>4, <2>14
    <3>7. t \notin UncountedIn(r)
      BY <1>1, <1>5, <2>5, <2>8, <3>1, CopyLeaves
    <3> QED
      BY <2>2, <2>9, <2>10, <2>13, <2>14, <3>7 DEF s, r
  <2>15. CASE k = 3
    <3>1. j <= 2
      BY <2>4, <2>15
    <3>4. x \notin UncountedIn(r)
      BY <1>1, <1>5, <2>5, <2>8, <3>1, CopyLeaves
    <3> QED
      BY <1>4, <2>2, <2>9, <2>10, <2>13, <2>15, <3>4 DEF s, r
  <2> QED
    BY <2>2, <2>14, <2>15
<1>11. CASE AssignsNew(t, x, k) /\ x \notin reads[t] /\ HeldBy(t, x)
  <2>1. /\ k >= 2 /\ p[t] \in Objects /\ Follows(s, k, NewPlan(t, x))
        /\ k = 2 => p[x] = p[t]
    BY <1>11 DEF AssignsNew, s
  <2>2. Len(s) = k /\ k = 2 /\ z = x
    <3>1. k = 2 \/ k = 3 \/ k = 4 \/ k = 5
      BY <1>1, <2>1, NewHead
    <3> QED
      BY <1>1, <1>2, <2>1, <3>1, NewHead
  <2>3. PICK j \in 1 .. 8 : j = 1 /\ j = k - 1 /\ j \in Nat
    BY <2>2
  <2>4. Len(r) = j
    BY <1>7, <2>2, <2>3
  <2>5. j # 0
    BY <2>3
  <2>6. r # <<>>
    BY <1>1, <2>4, <2>5, NotEmpty
  <2>7. Follows(r, j, NewPlan(t, x))
    <3>1. Len(NewPlan(t, x)) \in Nat
      BY DEF NewPlan
    <3>2. k > 1
      BY <2>2
    <3>3. Follows(r, k - 1, NewPlan(t, x))
      BY <1>1, <2>1, <2>2, <3>1, <3>2, TailFollows DEF r
    <3> QED
      BY <2>3, <3>3
  <2>8. Follows(r, j, CopyPlan(t, x, x))
    <3>1. NewPlan(t, x)[1] = CopyPlan(t, x, x)[1] /\ Len(CopyPlan(t, x, x)) = 8
      BY DEF NewPlan, CopyPlan
    <3>2. \A i \in 1 .. j : i = 1
      BY <2>3
    <3>3. \A i \in 1 .. j : r[Len(r) + 1 - i] = CopyPlan(t, x, x)[i]
      BY <2>7, <3>1, <3>2 DEF Follows
    <3>4. j \in 1 .. Len(CopyPlan(t, x, x)) /\ j <= Len(r)
      BY <2>3, <2>4, <3>1
    <3>5. Destroys(r, Len(r) - j)
      BY <2>7 DEF Follows
    <3> QED
      BY <3>3, <3>4, <3>5 DEF Follows
  <2>9. AssigningNew(s, t) /\ ~AssigningNew(r, t)
    <3>1. AssigningNew(s, t)
      BY <1>1, <1>8, <2>1, NewSteps
    <3>2. ~AssigningNew(r, t)
      BY <1>1, <2>3, <2>8, NewSteps
    <3> QED
      BY <3>1, <3>2
  <2>11. Copies(t, x, j)'
    <3>1. ~(j >= 7) /\ j # 7 /\ j # 3 /\ j \in {1, 4}
      BY <2>3
    <3> QED
      BY <1>3, <2>8, <3>1 DEF Copies
  <2>12. InCall(t)'
    BY <1>3, <1>4, <1>11, <2>6, <2>11 DEF InCall, HeldBy
  <2>13. x \notin UncountedIn(r)
    <3>1. j <= 1
      BY <2>3
    <3> QED
      BY <1>1, <1>5, <2>4, <2>7, <3>1, NewLeaves
  <2>14. DoomedIn(s) = {}
    BY <1>1, <2>1, <2>2, NoneDoomed
  <2> QED
    BY <1>4, <2>1, <2>2, <2>9, <2>12, <2>13, <2>14 DEF s, r
<1>12. CASE Releases(t, x, k)
  <2>1. Follows(s, k, ReleasePlan(x))
    BY <1>12 DEF Releases, s
  <2> QED
    BY <1>1, <1>2, <2>1, ReleaseHead
<1> QED
  BY <1>4, <1>9, <1>10, <1>11, <1>12

\* The second step is the first of the others.
LEMMA NextStep ==
  ASSUME NEW s \in Seq(PointerOps), Len(s) > 1
  PROVE  Tail(s) \in Seq(PointerOps) /\ Tail(s) # <<>> /\ Tail(s)[1] = s[2]
<1> DEFINE r == Tail(s)
<1>1. s # <<>> /\ Len(s) \in Nat
  OBVIOUS
<1>2. /\ r \in Seq(PointerOps) /\ Len(r) = Len(s) - 1
      /\ \A i \in 1 .. Len(s) - 1 : r[i] = s[i + 1]
  BY <1>1
<1> HIDE DEF r
<1>3. 1 \in 1 .. Len(s) - 1 /\ Len(r) # 0 /\ 1 + 1 = 2
  BY <1>1, <1>2
<1>4. r # <<>>
  BY <1>2, <1>3, NotEmpty
<1>5. r[1] = s[2]
  BY <1>2, <1>3
<1> QED
  BY <1>2, <1>4, <1>5 DEF r

\* The steps left after a reference is given up: with the last one, the object's
\* destruction comes first.
LeftAfter(s, r, o) ==
  \/ r = Tail(s)
  \/ /\ o \in Objects /\ o \notin DoomedIn(s)
     /\ r = << <<"downcount", o>>, <<"delete", o>> >> \o Tail(s)

\* They follow the plan.
LEMMA DowncountFollows ==
  ASSUME NEW s \in Seq(PointerOps), NEW k, NEW plan, Len(plan) \in Nat,
         Follows(s, k, plan), NEW z, s[1] = <<"downcount", z>>,
         NEW r, NEW o, LeftAfter(s, r, o)
  PROVE  /\ r \in Seq(PointerOps) /\ Len(r) \in Nat /\ Len(r) >= Len(s) - 1
         /\ Len(s) # k => Follows(r, k, plan)
         /\ Len(s) = k /\ k > 1 => Follows(r, k - 1, plan)
<1>1. s # <<>> /\ Len(s) \in Nat /\ k \in Nat
  BY FollowsHead
<1>2. CASE r = Tail(s)
  <2> DEFINE w == Tail(s)
  <2>1. /\ w \in Seq(PointerOps) /\ Len(w) = Len(s) - 1
        /\ Len(s) # k => Follows(w, k, plan)
        /\ Len(s) = k /\ k > 1 => Follows(w, k - 1, plan)
    BY TailFollows
  <2>2. r = w
    BY <1>2
  <2> HIDE DEF w
  <2>3. Len(w) \in Nat
    BY <2>1
  <2>4. Len(w) >= Len(s) - 1
    BY <1>1, <2>1
  <2> QED
    BY <2>1, <2>2, <2>3, <2>4
<1>3. CASE o \in Objects /\ o \notin DoomedIn(s)
           /\ r = << <<"downcount", o>>, <<"delete", o>> >> \o Tail(s)
  <2> DEFINE d == << <<"downcount", o>>, <<"delete", o>> >>
             w == Tail(s)
  <2>1. d \in Seq(PointerOps) /\ Len(d) = 2 /\ d[1] = <<"downcount", o>>
        /\ d[2] = <<"delete", o>>
    <3>1. o \in Pointer!Pointers
      BY <1>3, PointerNames
    <3>2. <<"downcount", o>> \in PointerOps /\ <<"delete", o>> \in PointerOps
      BY <3>1 DEF PointerOps
    <3> QED
      BY <3>2
  <2>2. /\ w \in Seq(PointerOps) /\ Len(w) = Len(s) - 1
        /\ \A i \in 1 .. Len(s) - 1 : w[i] = s[i + 1]
    BY <1>1
  <2> HIDE DEF d, w
  <2>3. /\ d \o w \in Seq(PointerOps) /\ Len(d \o w) = Len(d) + Len(w)
        /\ \A i \in 1 .. Len(d) + Len(w) :
             (d \o w)[i] = IF i <= Len(d) THEN d[i] ELSE w[i - Len(d)]
    BY <2>1, <2>2, ConcatProperties
  <2>4. r = d \o w
    BY <1>3 DEF d, w
  <2>5. Len(s) >= 1
    BY <1>1
  <2>6. r \in Seq(PointerOps) /\ Len(r) = Len(s) + 1
    BY <1>1, <2>1, <2>2, <2>3, <2>4
  <2>7. r[1] = <<"downcount", o>> /\ r[2] = <<"delete", o>>
    <3>1. 1 \in 1 .. Len(d) + Len(w) /\ 2 \in 1 .. Len(d) + Len(w)
      BY <1>1, <2>1, <2>2, <2>5
    <3> QED
      BY <2>1, <2>3, <2>4, <3>1
  <2>8. \A i \in 2 .. Len(s) : r[i + 1] = s[i]
    <3> TAKE i \in 2 .. Len(s)
    <3>1. /\ i + 1 \in 1 .. Len(d) + Len(w) /\ ~(i + 1 <= Len(d))
          /\ (i + 1) - Len(d) = i - 1 /\ i - 1 \in 1 .. Len(s) - 1 /\ (i - 1) + 1 = i
      BY <1>1, <2>1, <2>2
    <3>2. r[i + 1] = w[i - 1]
      BY <2>3, <2>4, <3>1
    <3> QED
      BY <2>2, <3>1, <3>2
  <2>9. \A i \in 1 .. Len(s) : s[i] # <<"delete", o>>
    <3>1. DOMAIN s = 1 .. Len(s)
      OBVIOUS
    <3> QED
      BY <1>3, <3>1 DEF DoomedIn
  <2>10. /\ Len(s) # k => Follows(r, k, plan)
         /\ Len(s) = k /\ k > 1 => Follows(r, k - 1, plan)
    BY <1>3, <2>6, <2>7, <2>8, <2>9, FollowsDeletion
  <2> QED
    BY <1>1, <2>6, <2>10
<1> QED
  BY <1>2, <1>3 DEF LeftAfter

\* A reference is given up: the pointer is assigned next, or destroyed.
LEMMA DowncountMoves ==
  ASSUME PointerTypes, InOrder, NEW t \in PointerThreads, NEW z,
         todo[t] # <<>>, todo[t][1] = <<"downcount", z>>, p' = p,
         NEW r, NEW o, LeftAfter(todo[t], r, o),
         Pointer!GoesOn(t, r)
  PROVE  /\ z \in Own(t)
         /\ z \in UncountedIn(Tail(todo[t]))
         /\ r \in Seq(PointerOps)
         /\ InCall(t)'
         /\ AssigningNew(r, t) <=> AssigningNew(todo[t], t)
<1> DEFINE s == todo[t]
<1>1. s \in Seq(PointerOps) /\ InCall(t) /\ s # <<>> /\ s[1] = <<"downcount", z>>
      /\ LeftAfter(s, r, o)
  BY DEF PointerTypes, InOrder
<1>2. s[1][1] = "downcount" /\ s[1][2] = z /\ Len(s) \in Nat
  BY <1>1
<1>4. PICK x \in Variables \cup Objects, k \in 1 .. 8 :
        /\ writes[t] = {x}
        /\ \/ Constructs(t, x, k)
           \/ /\ x \notin reads[t] /\ HeldBy(t, x)
              /\ Copies(t, x, k) \/ AssignsNew(t, x, k) \/ Releases(t, x, k)
  BY <1>1, CallIs
<1>5. t # x /\ t \in Pointer!Pointers /\ x \in Pointer!Pointers
  BY PointerNames
<1>6. k \in Nat
  OBVIOUS
<1>7. ASSUME Len(s) > 1, s[2][1] \in {"set", "delete"}, s[2][2] = z, z \in Pointer!Pointers
      PROVE  z \in UncountedIn(Tail(s))
  <2>1. Tail(s) \in Seq(PointerOps) /\ Tail(s) # <<>> /\ Tail(s)[1] = s[2]
    BY <1>1, <1>7, NextStep
  <2> QED
    BY <1>7, <2>1, UncountedRest
<1>8. ASSUME r \in Seq(PointerOps), r # <<>>
      PROVE  todo'[t] = r /\ reads'[t] = reads[t] /\ writes'[t] = writes[t]
  BY <1>8, GoneOn
<1>9. ASSUME NEW plan, Len(plan) \in Nat, NEW j, Follows(s, j, plan)
      PROVE  /\ r \in Seq(PointerOps) /\ Len(r) \in Nat /\ Len(r) >= Len(s) - 1
             /\ Len(s) # j => Follows(r, j, plan)
             /\ Len(s) = j /\ j > 1 => Follows(r, j - 1, plan)
  BY <1>1, <1>9, DowncountFollows
<1> HIDE DEF s
<1>10. ASSUME Len(s) # k, x \notin reads[t] /\ HeldBy(t, x),
              Copies(t, x, k) \/ AssignsNew(t, x, k) \/ Releases(t, x, k)
       PROVE  /\ Len(s) > 1 /\ s[2] = <<"delete", z>> /\ z \in Objects
              /\ r \in Seq(PointerOps) /\ Len(r) \in Nat /\ Len(r) >= Len(s) - 1
              /\ InCall(t)' /\ (AssigningNew(r, t) <=> AssigningNew(s, t))
  <2>1. PICK plan : Len(plan) \in Nat /\ Follows(s, k, plan)
    BY <1>10, PlanLengths DEF Copies, AssignsNew, Releases, s
  <2>2. Len(s) > k /\ k >= 1
    BY <1>1, <1>10, <2>1, FollowsHead
  <2>3. PICK q \in Objects :
          \/ s[1] = <<"delete", q>>
          \/ s[1] = <<"downcount", q>> /\ s[2] = <<"delete", q>>
    BY <1>1, <1>10, <2>1, FollowsHead
  <2>4. q = z /\ s[2] = <<"delete", z>>
    BY <1>1, <2>3
  <2>5. r \in Seq(PointerOps) /\ Len(r) \in Nat /\ Len(r) >= Len(s) - 1
    BY <1>9, <2>1
  <2>6. Len(r) # 0
    BY <1>2, <2>2, <2>5
  <2>7. r # <<>>
    BY <2>5, <2>6, NotEmpty
  <2>8. todo'[t] = r /\ reads'[t] = reads[t] /\ writes'[t] = writes[t]
    BY <1>8, <2>5, <2>7
  <2>9. \A f : Len(f) \in Nat /\ Follows(todo[t], k, f) => Follows(todo'[t], k, f)
    BY <1>9, <1>10, <2>8 DEF s
  <2>10. p'[t] = p[t] /\ \A v \in Variables : p'[v] = p[v]
    OBVIOUS
  <2>11. InCall(t)' /\ (AssigningNew(todo'[t], t) <=> AssigningNew(todo[t], t))
    BY <1>1, <1>4, <1>10, <2>5, <2>8, <2>9, <2>10, DestroyingStays DEF s
  <2>12. Len(s) > 1
    BY <1>2, <2>2
  <2> QED
    BY <2>3, <2>4, <2>5, <2>8, <2>11, <2>12 DEF s
<1>11. CASE Constructs(t, x, k)
  <2>1. PICK c \in Variables \cup Objects : Follows(s, k, ConstructPlan(x, c))
    BY <1>11 DEF Constructs, s
  <2>2. Len(s) = k
    BY <1>11 DEF Constructs, s
  <2> QED
    BY <1>1, <1>2, <2>1, <2>2, ConstructHead
<1>12. CASE x \notin reads[t] /\ HeldBy(t, x)
            /\ (Copies(t, x, k) \/ AssignsNew(t, x, k) \/ Releases(t, x, k))
  <2>1. CASE Len(s) # k
    <3>1. /\ Len(s) > 1 /\ s[2] = <<"delete", z>> /\ z \in Objects
          /\ r \in Seq(PointerOps)
          /\ InCall(t)' /\ (AssigningNew(r, t) <=> AssigningNew(s, t))
      BY <1>10, <1>12, <2>1
    <3>2. z \in UncountedIn(Tail(s))
      BY <1>7, <3>1, PointerNames
    <3>3. 1 \in DOMAIN s /\ 2 \in DOMAIN s
      BY <1>1, <3>1
    <3>4. z \in DoomedIn(s)
      BY <3>1, <3>3 DEF DoomedIn
    <3> QED
      BY <3>1, <3>2, <3>4 DEF Own, s
  <2>2. CASE Len(s) = k
    <3>1. ASSUME k > 1, s[2][1] \in {"set", "delete"}, s[2][2] = z, z \in {t} \cup {x},
                 NEW plan, Len(plan) \in Nat, Follows(s, k, plan)
          PROVE  /\ z \in Own(t) /\ z \in UncountedIn(Tail(s)) /\ r \in Seq(PointerOps)
                 /\ todo'[t] = r /\ reads'[t] = reads[t] /\ writes'[t] = writes[t]
                 /\ Follows(r, k - 1, plan)
      <4>1. /\ r \in Seq(PointerOps) /\ Len(r) \in Nat /\ Len(r) >= Len(s) - 1
            /\ Follows(r, k - 1, plan)
        BY <1>9, <2>2, <3>1
      <4>2. Len(r) # 0
        BY <2>2, <3>1, <4>1
      <4>3. r # <<>>
        BY <4>1, <4>2, NotEmpty
      <4>4. todo'[t] = r /\ reads'[t] = reads[t] /\ writes'[t] = writes[t]
        BY <1>8, <4>1, <4>3
      <4>5. z \in UncountedIn(Tail(s))
        BY <1>5, <1>7, <2>2, <3>1
      <4> QED
        BY <1>4, <3>1, <4>1, <4>4, <4>5 DEF Own
    <3>2. CASE Copies(t, x, k)
      <4>1. PICK c \in Variables \cup Objects : Follows(s, k, CopyPlan(t, x, c))
        BY <3>2 DEF Copies, s
      <4>2. /\ k \in {5, 2} /\ s[2][1] = "set" /\ s[2][2] = z /\ z \in {t} \cup {x}
        <5>0. k = 1 \/ k = 2 \/ k = 3 \/ k = 4 \/ k = 5 \/ k = 6 \/ k = 7 \/ k = 8
          OBVIOUS
        <5> QED
          BY <1>1, <1>2, <2>2, <4>1, <5>0, CopyHead
      <4>3. Len(CopyPlan(t, x, c)) \in Nat /\ k > 1
        BY <4>2, PlanLengths
      <4>4. PICK j \in 1 .. 8 : j = k - 1 /\ j \in Nat /\ j \in {4, 1}
        BY <4>2
      <4>5. /\ z \in Own(t) /\ z \in UncountedIn(Tail(s)) /\ r \in Seq(PointerOps)
            /\ todo'[t] = r /\ reads'[t] = reads[t] /\ writes'[t] = writes[t]
            /\ Follows(r, j, CopyPlan(t, x, c))
        BY <3>1, <4>1, <4>2, <4>3, <4>4
      <4>6. ~AssigningNew(s, t) /\ ~AssigningNew(r, t)
        <5>1. ~AssigningNew(s, t)
          BY <1>1, <1>6, <4>1, NewSteps
        <5>2. ~AssigningNew(r, t)
          BY <4>4, <4>5, NewSteps
        <5> QED
          BY <5>1, <5>2
      <4>7. Copies(t, x, j)'
        <5>1. ~(j >= 7) /\ j # 7 /\ j # 3 /\ j \in {1, 4}
          BY <4>4
        <5> QED
          BY <4>5, <5>1 DEF Copies
      <4>8. InCall(t)'
        BY <1>4, <1>12, <4>5, <4>7 DEF InCall, HeldBy
      <4> QED
        BY <4>5, <4>6, <4>8 DEF s
    <3>3. CASE AssignsNew(t, x, k)
      <4>1. k >= 2 /\ p[t] \in Objects /\ Follows(s, k, NewPlan(t, x))
        BY <3>3 DEF AssignsNew, s
      <4>2. k = 4 /\ s[2][1] = "set" /\ s[2][2] = z /\ z \in {t} \cup {x}
        <5>1. k = 2 \/ k = 3 \/ k = 4 \/ k = 5
          BY <1>1, <4>1, NewHead
        <5> QED
          BY <1>1, <1>2, <2>2, <4>1, <5>1, NewHead
      <4>3. Len(NewPlan(t, x)) \in Nat /\ k > 1
        BY <4>2 DEF NewPlan
      <4>4. PICK j \in 1 .. 8 : j = k - 1 /\ j \in Nat /\ j = 3 /\ j >= 2
        BY <4>2
      <4>5. /\ z \in Own(t) /\ z \in UncountedIn(Tail(s)) /\ r \in Seq(PointerOps)
            /\ todo'[t] = r /\ reads'[t] = reads[t] /\ writes'[t] = writes[t]
            /\ Follows(r, j, NewPlan(t, x))
        BY <3>1, <4>1, <4>2, <4>3, <4>4
      <4>6. AssigningNew(s, t) /\ AssigningNew(r, t)
        <5>1. AssigningNew(s, t)
          BY <1>1, <1>6, <4>1, NewSteps
        <5>2. AssigningNew(r, t)
          BY <4>4, <4>5, NewSteps
        <5> QED
          BY <5>1, <5>2
      <4>7. AssignsNew(t, x, j)'
        <5>1. j # 2
          BY <4>4
        <5> QED
          BY <4>1, <4>4, <4>5, <5>1 DEF AssignsNew
      <4>8. InCall(t)'
        BY <1>4, <1>12, <4>5, <4>7 DEF InCall, HeldBy
      <4> QED
        BY <4>5, <4>6, <4>8 DEF s
    <3>4. CASE Releases(t, x, k)
      <4>1. p[t] = NULL /\ Follows(s, k, ReleasePlan(x))
        BY <3>4 DEF Releases, s
      <4>2. k = 2 /\ s[2][1] = "set" /\ s[2][2] = z /\ z \in {t} \cup {x}
        <5>1. k = 1 \/ k = 2
          BY <1>1, <4>1, ReleaseHead
        <5> QED
          BY <1>1, <1>2, <2>2, <4>1, <5>1, ReleaseHead
      <4>3. Len(ReleasePlan(x)) \in Nat /\ k > 1
        BY <4>2 DEF ReleasePlan
      <4>4. PICK j \in 1 .. 8 : j = k - 1 /\ j \in Nat /\ j = 1
        BY <4>2
      <4>5. /\ z \in Own(t) /\ z \in UncountedIn(Tail(s)) /\ r \in Seq(PointerOps)
            /\ todo'[t] = r /\ reads'[t] = reads[t] /\ writes'[t] = writes[t]
            /\ Follows(r, j, ReleasePlan(x))
        BY <3>1, <4>1, <4>2, <4>3, <4>4
      <4>6. ~AssigningNew(s, t) /\ ~AssigningNew(r, t)
        <5>1. ~AssigningNew(s, t)
          BY <1>1, <1>6, <4>1, NewSteps
        <5>2. ~AssigningNew(r, t)
          BY <4>4, <4>5, NewSteps
        <5> QED
          BY <5>1, <5>2
      <4>7. Releases(t, x, j)'
        BY <4>1, <4>4, <4>5 DEF Releases
      <4>8. InCall(t)'
        BY <1>4, <1>12, <4>5, <4>7 DEF InCall, HeldBy
      <4> QED
        BY <4>5, <4>6, <4>8 DEF s
    <3> QED
      BY <1>12, <3>2, <3>3, <3>4
  <2> QED
    BY <2>1, <2>2
<1> QED
  BY <1>4, <1>11, <1>12

\* An object is deleted once.
LEMMA DeletedOnce ==
  ASSUME NEW s \in Seq(PointerOps), NEW k, NEW plan, Len(plan) \in Nat,
         Follows(s, k, plan), NEW t, NEW x, OnlyAssigns(plan, t, x),
         NEW o \in Objects, s[1] = <<"delete", o>>
  PROVE  o \notin DoomedIn(Tail(s))
<1> DEFINE r == Tail(s)
<1>1. /\ k \in 1 .. Len(plan) /\ k <= Len(s) /\ Len(s) \in Nat
      /\ \A i \in 1 .. k : s[Len(s) + 1 - i] = plan[i]
      /\ Destroys(s, Len(s) - k)
  BY DEF Follows
<1>2. s # <<>>
  BY <1>1
<1>3. /\ DOMAIN r = 1 .. Len(s) - 1
      /\ \A i \in 1 .. Len(s) - 1 : r[i] = s[i + 1]
  BY <1>2
<1> HIDE DEF r
<1>4. ASSUME NEW i \in 1 .. Len(s) - 1, r[i] = <<"delete", o>> PROVE FALSE
  <2>1. s[i + 1] = <<"delete", o>>
    BY <1>3, <1>4
  <2>2. CASE i + 1 <= Len(s) - k
    <3>1. i + 1 \in 1 .. Len(s) - k /\ 1 \in 1 .. Len(s) - k /\ i + 1 # 1
      BY <1>1, <2>2
    <3>2. \A j, l \in 1 .. Len(s) - k : s[j] = s[l] => j = l
      BY <1>1 DEF Destroys
    <3> QED
      BY <2>1, <3>1, <3>2
  <2>3. CASE ~(i + 1 <= Len(s) - k)
    <3>1. /\ Len(s) + 1 - (i + 1) \in 1 .. k
          /\ Len(s) + 1 - (Len(s) + 1 - (i + 1)) = i + 1
          /\ Len(s) + 1 - (i + 1) \in 1 .. Len(plan)
      BY <1>1, <2>3
    <3>2. plan[Len(s) + 1 - (i + 1)] = <<"delete", o>>
      BY <1>1, <2>1, <3>1
    <3> QED
      BY <3>1, <3>2 DEF OnlyAssigns
  <2> QED
    BY <2>2, <2>3
<1> QED
  BY <1>3, <1>4 DEF DoomedIn, r

\* An object is deleted: only in the midst of destructions.
LEMMA DeleteMoves ==
  ASSUME PointerTypes, InOrder, NEW t \in PointerThreads, NEW o,
         todo[t] # <<>>, todo[t][1] = <<"delete", o>>,
         p' = [p EXCEPT ![o] = NULL],
         Pointer!GoesOn(t, Tail(todo[t]))
  PROVE  /\ o \in Objects
         /\ o \in DoomedIn(todo[t])
         /\ o \notin DoomedIn(Tail(todo[t]))
         /\ InCall(t)'
         /\ AssigningNew(Tail(todo[t]), t) <=> AssigningNew(todo[t], t)
<1> DEFINE s == todo[t]
           r == Tail(s)
<1>1. /\ s \in Seq(PointerOps) /\ InCall(t) /\ s # <<>> /\ s[1] = <<"delete", o>>
      /\ r \in Seq(PointerOps)
  BY DEF PointerTypes, InOrder
<1>2. s[1][1] = "delete" /\ s[1][2] = o /\ Len(s) \in Nat
  BY <1>1
<1>3. /\ todo'[t] = r
      /\ r # <<>> => reads'[t] = reads[t] /\ writes'[t] = writes[t]
  BY <1>1, GoneOn
<1>4. PICK x \in Variables \cup Objects, k \in 1 .. 8 :
        /\ writes[t] = {x}
        /\ \/ Constructs(t, x, k)
           \/ /\ x \notin reads[t] /\ HeldBy(t, x)
              /\ Copies(t, x, k) \/ AssignsNew(t, x, k) \/ Releases(t, x, k)
  BY <1>1, CallIs
<1>5. p \in [Pointer!Pointers -> Objects \cup {NULL}]
  BY DEF PointerTypes, Pointer!TypeOK
<1>6. Len(r) = Len(s) - 1
  BY <1>1
<1> HIDE DEF s, r
<1>7. CASE Constructs(t, x, k)
  <2>1. PICK c \in Variables \cup Objects : Follows(s, k, ConstructPlan(x, c))
    BY <1>7 DEF Constructs, s
  <2>2. Len(s) = k
    BY <1>7 DEF Constructs, s
  <2> QED
    BY <1>1, <1>2, <2>1, <2>2, ConstructHead
<1>8. CASE x \notin reads[t] /\ HeldBy(t, x)
           /\ (Copies(t, x, k) \/ AssignsNew(t, x, k) \/ Releases(t, x, k))
  <2>1. PICK plan : Len(plan) \in Nat /\ Follows(s, k, plan) /\ OnlyAssigns(plan, t, x)
    BY <1>8, PlanLengths, PlanAssigns DEF Copies, AssignsNew, Releases, s
  <2>2. Len(s) # k
    <3>1. Len(s) = k => s[1] = plan[k]
      BY <1>1, <2>1, FollowsHead
    <3>2. k \in 1 .. Len(plan)
      BY <2>1 DEF Follows
    <3>3. plan[k][1] # "delete"
      BY <2>1, <3>2 DEF OnlyAssigns
    <3> QED
      BY <1>2, <3>1, <3>3
  <2>3. Len(s) > k /\ k >= 1
    BY <1>1, <2>1, <2>2, FollowsHead
  <2>4. PICK q \in Objects : s[1] = <<"delete", q>> \/ s[1] = <<"downcount", q>>
    BY <1>1, <2>1, <2>2, FollowsHead
  <2>5. o = q
    BY <1>1, <2>4
  <2>6. 1 \in DOMAIN s
    BY <1>1
  <2>7. o \in DoomedIn(s)
    BY <1>1, <2>5, <2>6 DEF DoomedIn
  <2>8. o \notin DoomedIn(r)
    BY <1>1, <2>1, <2>5, DeletedOnce DEF r
  <2>9. Len(r) # 0
    BY <1>2, <1>6, <2>3
  <2>10. r # <<>>
    BY <1>1, <2>9, NotEmpty
  <2>11. todo'[t] = r /\ reads'[t] = reads[t] /\ writes'[t] = writes[t]
    BY <1>3, <2>10
  <2>12. \A f : Len(f) \in Nat /\ Follows(todo[t], k, f) => Follows(todo'[t], k, f)
    <3> SUFFICES ASSUME NEW f, Len(f) \in Nat, Follows(s, k, f) PROVE Follows(r, k, f)
      BY <2>11 DEF s
    <3> QED
      BY <1>1, <2>2, TailFollows DEF r
  <2>13. p'[t] = p[t] /\ \A v \in Variables : p'[v] = p[v]
    BY <1>5, <2>5, PointerNames
  <2>14. InCall(t)' /\ (AssigningNew(todo'[t], t) <=> AssigningNew(todo[t], t))
    BY <1>1, <1>4, <1>8, <2>2, <2>11, <2>12, <2>13, DestroyingStays DEF s
  <2> QED
    BY <2>5, <2>7, <2>8, <2>11, <2>14 DEF r, s
<1> QED
  BY <1>4, <1>7, <1>8

-----------------------------------------------------------------------------
\* The counted pointers: each step keeps the order.

\* An object that is referred to is alive.
LEMMA ReferredIsAlive ==
  ASSUME PointerTypes, InOrder, NEW o \in Objects, Pointer!References(o) # {}
  PROVE  life[o] = "alive"
<1>1. PICK x \in Pointer!Pointers : p[x] = o
  BY ReferenceIs
<1>2. life[o] # "unborn"
  BY <1>1, PointerNames DEF PointerTypes
<1>3. life[o] # "deleted"
  BY DEF InOrder, CountIsRight
<1> QED
  BY <1>2, <1>3 DEF PointerTypes, Pointer!TypeOK

\* How long a step is.
LEMMA OpLengths ==
  ASSUME NEW h \in PointerOps
  PROVE  Len(h) \in {2, 3} /\ (Len(h) = 3 => h[1] \in {"set", "compare"})
<1>1. CASE \E op \in {"upcount", "downcount", "delete"}, x \in Pointer!Pointers :
             h = <<op, x>>
  <2>1. Len(h) = 2
    BY <1>1
  <2> QED
    BY <2>1
<1>2. CASE \E op \in {"set", "compare"}, x \in Pointer!Pointers,
               y \in Pointer!Pointers \cup {NULL} : h = <<op, x, y>>
  <2>1. Len(h) = 3 /\ h[1] \in {"set", "compare"}
    BY <1>2
  <2> QED
    BY <2>1
<1> QED
  BY <1>1, <1>2 DEF PointerOps

\* In order, nothing deleted is used.
LEMMA NothingFreed ==
  ASSUME PointerTypes, InOrder, NEW t \in PointerThreads, todo[t] # <<>>
  PROVE  ~Pointer!UsesFreed(todo[t][1])
<1> DEFINE s == todo[t]
           h == s[1]
<1>1. s \in Seq(PointerOps) /\ InCall(t) /\ s # <<>> /\ h \in PointerOps
  BY DEF PointerTypes, InOrder
<1>2. /\ h[2] \in Own(t)
      /\ h[1] \in {"set", "compare"} /\ h[3] \in Objects => Pointer!References(h[3]) # {}
      /\ h[1] = "upcount" /\ p[h[2]] \in Objects =>
           Pointer!References(p[h[2]]) # {} \/ IsNew(t, p[h[2]])
  BY HeadUses
<1>3. h[2] \in Pointer!Pointers /\ (h[1] = "downcount" => h = <<"downcount", h[2]>>)
  BY <1>1 DEF PointerOps
<1>8. Len(h) \in {2, 3} /\ (Len(h) = 3 => h[1] \in {"set", "compare"})
  BY <1>1, OpLengths
<1> HIDE DEF s, h
<1>4. ASSUME h[2] \in Objects PROVE life[h[2]] = "alive"
  <2>1. h[2] \in DoomedIn(s) => life[h[2]] = "alive"
    BY <1>4 DEF InOrder, NoReference, s
  <2>2. h[2] \in writes[t] => life[h[2]] = "alive"
    BY <1>4, AssignedExists, ReferredIsAlive
  <2>3. h[2] # t
    BY <1>4, PointerNames
  <2> QED
    BY <1>2, <2>1, <2>2, <2>3 DEF Own, s
<1>5. \A i \in 2 .. Len(h) : h[i] \in Objects => life[h[i]] # "deleted"
  <2>1. ASSUME h[1] \in {"set", "compare"}, h[3] \in Objects PROVE life[h[3]] = "alive"
    BY <1>2, <2>1, ReferredIsAlive
  <2>2. PICK n \in {2, 3} : n = Len(h) /\ (n = 3 => h[1] \in {"set", "compare"})
    BY <1>8
  <2>3. \A i \in 2 .. n : i = 2 \/ (i = 3 /\ n = 3)
    BY <2>2
  <2> SUFFICES ASSUME NEW i \in 2 .. n, h[i] \in Objects PROVE life[h[i]] # "deleted"
    BY <2>2
  <2>4. CASE i = 2
    BY <1>4, <2>4
  <2>5. CASE i = 3 /\ n = 3
    BY <2>1, <2>2, <2>5
  <2> QED
    BY <2>3, <2>4, <2>5
<1>6. ASSUME h[1] = "upcount", p[h[2]] \in Objects PROVE life[p[h[2]]] # "deleted"
  BY <1>2, <1>6, ReferredIsAlive, NewIsUnreferenced
<1>7. ASSUME h[1] = "downcount", p[h[2]] \in Objects PROVE life[p[h[2]]] # "deleted"
  <2>1. h = <<"downcount", h[2]>> /\ h[2] \in Pointer!Pointers
    BY <1>3, <1>7
  <2>2. h[2] \notin UncountedIn(s)
    BY <1>1, <1>7, <2>1, UncountedRest DEF h
  <2>3. h[2] \in Pointer!References(p[h[2]])
    BY <1>2, <2>1, <2>2, OwnIsCounted DEF s
  <2> QED
    BY <1>7, <2>3, ReferredIsAlive
<1> QED
  BY <1>5, <1>6, <1>7 DEF Pointer!UsesFreed, s, h

\* The references after a step.
LEMMA ReferencesAfter ==
  ASSUME PointerTypes, NEW t \in PointerThreads, NEW r \in Seq(PointerOps),
         Pointer!GoesOn(t, r), NEW o, NEW x \in Pointer!Pointers
  PROVE  x \in Pointer!References(o)' <=>
           /\ p'[x] = o
           /\ x \notin UncountedIn(r)
           /\ \A u \in PointerThreads : u # t => x \notin UncountedIn(todo[u])
<1>1. \A u \in PointerThreads : Pointer!Uncounted(u)' = UncountedIn(todo'[u])
  BY DEF Pointer!Uncounted, UncountedIn
<1>2. todo'[t] = r /\ \A u \in PointerThreads : u # t => todo'[u] = todo[u]
  BY GoneOn
<1> QED
  BY <1>1, <1>2 DEF Pointer!References

\* What is in order after a step.
LEMMA OrderKept ==
  ASSUME PointerTypes, InOrder, NEW t \in PointerThreads, NEW r \in Seq(PointerOps),
         Pointer!GoesOn(t, r),
         \A x \in Pointer!Pointers : x \notin Own(t) => p'[x] = p[x],
         InCall(t)',
         \A u \in PointerThreads : u # t => DoomedIn(r) \cap DoomedIn(todo[u]) = {},
         \A o \in Objects : CountIsRight(o)',
         \A u \in PointerThreads, o \in Objects : NoReference(u, o)'
  PROVE  InOrder'
<1>1. /\ todo'[t] = r
      /\ reads'[t] \subseteq reads[t] /\ writes'[t] \subseteq writes[t]
      /\ \A u \in PointerThreads : u # t =>
           todo'[u] = todo[u] /\ reads'[u] = reads[u] /\ writes'[u] = writes[u]
      /\ mishaps' = mishaps
  <2>1. r # <<>> => reads'[t] = reads[t] /\ writes'[t] = writes[t]
    BY GoneOn
  <2>2. r = <<>> => reads'[t] = {} /\ writes'[t] = {}
    BY GoneOn
  <2>3. /\ todo'[t] = r /\ mishaps' = mishaps
        /\ \A u \in PointerThreads : u # t =>
             todo'[u] = todo[u] /\ reads'[u] = reads[u] /\ writes'[u] = writes[u]
    BY GoneOn
  <2> QED
    BY <2>1, <2>2, <2>3
<1>2. \A u \in PointerThreads : InCall(u)'
  <2> SUFFICES ASSUME NEW u \in PointerThreads, u # t PROVE InCall(u)'
    OBVIOUS
  <2> QED
    BY <1>1, OthersStay
<1>3. Apart'
  <2> SUFFICES ASSUME NEW u \in PointerThreads, NEW w \in PointerThreads, u # w
               PROVE  /\ writes'[u] \cap (reads'[w] \cup writes'[w]) = {}
                      /\ DoomedIn(todo'[u]) \cap DoomedIn(todo'[w]) = {}
    BY DEF Apart
  <2>1. /\ writes'[u] \subseteq writes[u] /\ writes'[w] \subseteq writes[w]
        /\ reads'[w] \subseteq reads[w]
    BY <1>1
  <2>2. writes[u] \cap (reads[w] \cup writes[w]) = {}
    BY DEF InOrder, Apart
  <2>3. DoomedIn(todo'[u]) \cap DoomedIn(todo'[w]) = {}
    <3>1. CASE u = t \/ w = t
      BY <1>1, <3>1
    <3>2. CASE u # t /\ w # t
      BY <1>1, <3>2 DEF InOrder, Apart
    <3> QED
      BY <3>1, <3>2
  <2> QED
    BY <2>1, <2>2, <2>3
<1>4. mishaps' = {}
  BY <1>1 DEF InOrder
<1> QED
  BY <1>2, <1>3, <1>4 DEF InOrder

\* A step that counts nothing.
LEMMA QuietKeeps ==
  ASSUME PointerTypes, InOrder, NEW t \in PointerThreads, NEW r \in Seq(PointerOps),
         Pointer!GoesOn(t, r),
         \A x \in Pointer!Pointers : x \notin Own(t) => p'[x] = p[x],
         InCall(t)',
         AssigningNew(r, t) <=> AssigningNew(todo[t], t),
         AssigningNew(todo[t], t) => p'[t] = p[t],
         DoomedIn(r) = DoomedIn(todo[t]),
         crefs' = crefs, life' = life,
         \A o \in Objects : Pointer!References(o)' = Pointer!References(o),
         \A u \in PointerThreads, o \in Objects : IsNew(u, o) =>
           \A x \in Pointer!Pointers : p'[x] = o => x \in UncountedIn(todo'[u])
  PROVE  InOrder'
<1>1. todo'[t] = r /\ \A u \in PointerThreads : u # t =>
        todo'[u] = todo[u] /\ reads'[u] = reads[u] /\ writes'[u] = writes[u]
  BY GoneOn
<1>2. \A u \in PointerThreads : DoomedIn(todo'[u]) = DoomedIn(todo[u])
  BY <1>1
<1>3. \A u \in PointerThreads, o \in Objects : IsNew(u, o)' <=> IsNew(u, o)
  <2> SUFFICES ASSUME NEW u \in PointerThreads, NEW o \in Objects
               PROVE  IsNew(u, o)' <=> IsNew(u, o)
    OBVIOUS
  <2>1. CASE u = t
    BY <1>1, <2>1 DEF IsNew
  <2>2. CASE u # t
    BY <1>1, <2>2, OthersStay
  <2> QED
    BY <2>1, <2>2
<1>4. \A o \in Objects : CountIsRight(o)'
  <2> SUFFICES ASSUME NEW o \in Objects PROVE CountIsRight(o)'
    OBVIOUS
  <2>1. CountIsRight(o)
    BY DEF InOrder
  <2> QED
    BY <1>2, <1>3, <2>1 DEF CountIsRight
<1>5. \A u \in PointerThreads, o \in Objects : NoReference(u, o)'
  <2> SUFFICES ASSUME NEW u \in PointerThreads, NEW o \in Objects PROVE NoReference(u, o)'
    OBVIOUS
  <2>1. NoReference(u, o)
    BY DEF InOrder
  <2> QED
    BY <1>2, <1>3, <2>1 DEF NoReference
<1>6. \A u \in PointerThreads : u # t => DoomedIn(r) \cap DoomedIn(todo[u]) = {}
  BY DEF InOrder, Apart
<1> QED
  BY <1>4, <1>5, <1>6, OrderKept

\* A pointer is assigned.
LEMMA SetKeeps ==
  ASSUME PointerTypes, InOrder, NEW t \in PointerThreads, Pointer!Set(t)
  PROVE  InOrder'
<1> DEFINE s == todo[t]
           r == Tail(s)
           z == s[1][2]
           y == s[1][3]
<1>1. s # <<>> /\ s[1][1] = "set" /\ s \in Seq(PointerOps) /\ InCall(t)
  BY DEF Pointer!Set, Pointer!Does, PointerTypes, InOrder
<1>2. /\ p' = [p EXCEPT ![z] = IF y = NULL THEN NULL ELSE p[y]]
      /\ Pointer!GoesOn(t, r) /\ crefs' = crefs /\ life' = life
  BY DEF Pointer!Set
<1>3. s[1] = <<"set", z, y>> /\ z \in Pointer!Pointers /\ y \in Pointer!Pointers \cup {NULL}
  BY <1>1, OpsAre
<1>4. r \in Seq(PointerOps)
  BY <1>1
<1> HIDE DEF z, y, r
<1>5. /\ z \in {t} \cup writes[t]
      /\ y # NULL =>
           /\ Len(s) > 1 /\ s[2] = <<"upcount", z>>
           /\ \/ p[y] = NULL
              \/ y \in Pointer!References(p[y])
              \/ y = t /\ IsNew(t, p[t])
      /\ AssigningNew(s, t) => z # t
      /\ InCall(t)'
      /\ AssigningNew(todo'[t], t) <=> AssigningNew(s, t)
  BY <1>1, <1>2, <1>3, SetMoves DEF r
<1> HIDE DEF s
<1>6. todo'[t] = r
  BY <1>2, <1>4, GoneOn
<1>7. /\ p'[z] = IF y = NULL THEN NULL ELSE p[y]
      /\ \A x \in Pointer!Pointers : x # z => p'[x] = p[x]
  BY <1>2, <1>3 DEF PointerTypes, Pointer!TypeOK
<1>8. \A x \in Pointer!Pointers : x \in UncountedIn(s) <=> x = z \/ x \in UncountedIn(r)
  <2> TAKE x \in Pointer!Pointers
  <2>1. s[1] # <<"downcount", x>> /\ s[1][1] = "set" /\ s[1][2] = z
    BY <1>3
  <2> QED
    BY <1>1, <2>1, UncountedRest DEF r
<1>9. y # NULL => z \in UncountedIn(r)
  <2> SUFFICES ASSUME y # NULL PROVE z \in UncountedIn(r)
    OBVIOUS
  <2>1. r # <<>> /\ r[1] = <<"upcount", z>>
    BY <1>1, <1>5, NextStep DEF r
  <2> QED
    BY <1>3, <1>4, <2>1, UncountedRest
<1>10. \A o \in Objects : o # NULL
  BY PointerNames
<1>11. \A o \in Objects : Pointer!References(o)' = Pointer!References(o)
  <2> SUFFICES ASSUME NEW o \in Objects, NEW x \in Pointer!Pointers
               PROVE  x \in Pointer!References(o)' <=> x \in Pointer!References(o)
    BY DEF Pointer!References
  <2>1. x \in Pointer!References(o)' <=>
          /\ p'[x] = o
          /\ x \notin UncountedIn(r)
          /\ \A u \in PointerThreads : u # t => x \notin UncountedIn(todo[u])
    BY <1>2, <1>4, ReferencesAfter
  <2>2. x \in Pointer!References(o) <=>
          /\ p[x] = o
          /\ \A u \in PointerThreads : x \notin UncountedIn(todo[u])
    BY ReferenceIs
  <2>3. CASE x = z
    <3>1. x \notin Pointer!References(o)
      BY <1>8, <2>2, <2>3 DEF s
    <3>2. y = NULL => p'[x] # o
      BY <1>7, <1>10, <2>3
    <3> QED
      BY <1>9, <2>1, <2>3, <3>1, <3>2
  <2>4. CASE x # z
    BY <1>7, <1>8, <2>1, <2>2, <2>4 DEF s
  <2> QED
    BY <2>3, <2>4
<1>12. DoomedIn(r) = DoomedIn(s)
  <2>1. \A o \in Objects : o \in DoomedIn(s) <=> o \in DoomedIn(r)
    <3> TAKE o \in Objects
    <3>1. s[1] # <<"delete", o>>
      BY <1>1
    <3> QED
      BY <1>1, <3>1, TailDooms DEF r
  <2> QED
    BY <2>1 DEF DoomedIn
<1>13. ASSUME NEW u \in PointerThreads, NEW o \in Objects, IsNew(u, o),
              NEW x \in Pointer!Pointers, p'[x] = o
       PROVE  x \in UncountedIn(todo'[u])
  <2>1. \A q \in Pointer!Pointers : p[q] = o => q \in UncountedIn(todo[u])
    BY <1>13 DEF InOrder, NoReference
  <2>2. CASE x # z
    <3>1. x \in UncountedIn(todo[u])
      BY <1>7, <1>13, <2>1, <2>2
    <3>2. CASE u = t
      BY <1>6, <1>8, <2>2, <3>1, <3>2 DEF s
    <3>3. CASE u # t
      BY <1>2, <1>4, <3>1, <3>3, GoneOn
    <3> QED
      BY <3>2, <3>3
  <2>3. CASE x = z
    <3>1. y # NULL /\ p[y] = o /\ y \in Pointer!Pointers
      BY <1>3, <1>7, <1>10, <1>13, <2>3
    <3>2. y \notin Pointer!References(o)
      BY <1>13, NewIsUnreferenced
    <3>3. y = t /\ IsNew(t, o)
      BY <1>5, <1>10, <3>1, <3>2
    <3>4. u = t
      BY <1>13, <3>3, NewIsUnreferenced
    <3> QED
      BY <1>6, <1>9, <2>3, <3>1, <3>4
  <2> QED
    BY <2>2, <2>3
<1>14. \A x \in Pointer!Pointers : x \notin Own(t) => p'[x] = p[x]
  BY <1>5, <1>7 DEF Own
<1>15. AssigningNew(r, t) <=> AssigningNew(todo[t], t)
  BY <1>5, <1>6 DEF s
<1>16. AssigningNew(todo[t], t) => p'[t] = p[t]
  BY <1>5, <1>7, PointerNames DEF s
<1>17. DoomedIn(r) = DoomedIn(todo[t])
  BY <1>12 DEF s
<1> QED
  BY <1>2, <1>4, <1>5, <1>11, <1>13, <1>14, <1>15, <1>16, <1>17, QuietKeeps

\* Two pointers are compared.
LEMMA CompareKeeps ==
  ASSUME PointerTypes, InOrder, NEW t \in PointerThreads, Pointer!Compare(t)
  PROVE  InOrder'
<1> DEFINE s == todo[t]
           z == s[1][2]
           y == s[1][3]
           r == SubSeq(s, IF p[z] = p[y] THEN 5 ELSE 2, Len(s))
<1>1. s # <<>> /\ s[1][1] = "compare" /\ s \in Seq(PointerOps)
  BY DEF Pointer!Compare, Pointer!Does, PointerTypes
<1>2. p' = p /\ Pointer!GoesOn(t, r) /\ crefs' = crefs /\ life' = life
  BY DEF Pointer!Compare
<1>3. s[1] = <<"compare", z, y>>
  BY <1>1, OpsAre
<1>4. Compares(todo[t], z, y, r)
  BY <1>1, <1>3 DEF Compares
<1> HIDE DEF z, y, r
<1>5. /\ r \in Seq(PointerOps)
      /\ UncountedIn(r) = UncountedIn(todo[t])
      /\ DoomedIn(r) = DoomedIn(todo[t])
      /\ InCall(t)'
      /\ AssigningNew(r, t) <=> AssigningNew(todo[t], t)
  BY <1>2, <1>4, CompareMoves
<1>6. todo'[t] = r /\ \A u \in PointerThreads : u # t => todo'[u] = todo[u]
  BY <1>2, <1>5, GoneOn
<1>7. \A u \in PointerThreads : UncountedIn(todo'[u]) = UncountedIn(todo[u])
  BY <1>5, <1>6
<1>8. \A o \in Objects : Pointer!References(o)' = Pointer!References(o)
  <2> SUFFICES ASSUME NEW o \in Objects, NEW x \in Pointer!Pointers
               PROVE  x \in Pointer!References(o)' <=> x \in Pointer!References(o)
    BY DEF Pointer!References
  <2>1. x \in Pointer!References(o)' <=>
          /\ p'[x] = o
          /\ x \notin UncountedIn(r)
          /\ \A u \in PointerThreads : u # t => x \notin UncountedIn(todo[u])
    BY <1>2, <1>5, ReferencesAfter
  <2>2. x \in Pointer!References(o) <=>
          /\ p[x] = o
          /\ \A u \in PointerThreads : x \notin UncountedIn(todo[u])
    BY ReferenceIs
  <2> QED
    BY <1>2, <1>5, <2>1, <2>2
<1>9. ASSUME NEW u \in PointerThreads, NEW o \in Objects, IsNew(u, o),
             NEW x \in Pointer!Pointers, p'[x] = o
      PROVE  x \in UncountedIn(todo'[u])
  <2>1. x \in UncountedIn(todo[u])
    BY <1>2, <1>9 DEF InOrder, NoReference
  <2> QED
    BY <1>7, <2>1
<1>10. \A x \in Pointer!Pointers : x \notin Own(t) => p'[x] = p[x]
  BY <1>2
<1>11. AssigningNew(todo[t], t) => p'[t] = p[t]
  BY <1>2
<1> QED
  BY <1>2, <1>5, <1>8, <1>9, <1>10, <1>11, QuietKeeps

\* No other thread leaves uncounted what a thread may change.
LEMMA OwnIsNoOthers ==
  ASSUME PointerTypes, InOrder, NEW t \in PointerThreads, NEW u \in PointerThreads, u # t,
         NEW z, z \in Own(t)
  PROVE  z \notin UncountedIn(todo[u])
<1>1. z \notin Own(u) /\ InCall(u)
  BY OwnIsOwn DEF InOrder
<1> QED
  BY <1>1, UncountedOwn DEF Own

\* A pointer is counted.
LEMMA UpcountKeeps ==
  ASSUME PointerTypes, InOrder, NEW t \in PointerThreads, Pointer!upcount(t)
  PROVE  InOrder'
<1> DEFINE s == todo[t]
           r == Tail(s)
           z == s[1][2]
           q == p[z]
<1>1. s # <<>> /\ s[1][1] = "upcount" /\ s \in Seq(PointerOps) /\ InCall(t)
  BY DEF Pointer!upcount, Pointer!Does, PointerTypes, InOrder
<1>2. /\ p' = p /\ life' = life /\ Pointer!GoesOn(t, r)
      /\ crefs' = IF q = NULL THEN crefs ELSE [crefs EXCEPT ![q] = @ + 1]
  BY DEF Pointer!upcount
<1>3. s[1] = <<"upcount", z>> /\ z \in Pointer!Pointers
  BY <1>1, OpsAre
<1>4. r \in Seq(PointerOps)
  BY <1>1
<1>5. /\ z \in Own(t)
      /\ q \in Objects => Pointer!References(q) # {} \/ IsNew(t, q)
  BY <1>1, HeadUses
<1>6. /\ AssigningNew(s, t) => q = p[t]
      /\ ~AssigningNew(r, t)
      /\ DoomedIn(s) = {}
      /\ z \notin UncountedIn(r)
      /\ InCall(t)'
  BY <1>1, <1>2, <1>3, UpcountMoves
<1>7. todo'[t] = r /\ \A u \in PointerThreads : u # t => todo'[u] = todo[u]
  BY <1>2, <1>4, GoneOn
<1> HIDE DEF s, r, z, q
<1>8. q \in Objects \cup {NULL} /\ q = p[z]
  BY <1>3 DEF q, PointerTypes, Pointer!TypeOK
<1>9. \A x \in Pointer!Pointers : x \in UncountedIn(s) <=> x = z \/ x \in UncountedIn(r)
  <2> TAKE x \in Pointer!Pointers
  <2>1. s[1] # <<"downcount", x>> /\ s[1][1] = "upcount" /\ s[1][2] = z
    BY <1>3
  <2> QED
    BY <1>1, <2>1, UncountedRest DEF r
<1>10. \A u \in PointerThreads : u # t => z \notin UncountedIn(todo[u])
  BY <1>5, OwnIsNoOthers
<1>11. \A o \in Objects :
         /\ z \notin Pointer!References(o)
         /\ Pointer!References(o)' =
              IF o = q THEN Pointer!References(o) \cup {z} ELSE Pointer!References(o)
  <2> SUFFICES ASSUME NEW o \in Objects, NEW x \in Pointer!Pointers
               PROVE  /\ z \notin Pointer!References(o)
                      /\ x \in Pointer!References(o)' <=>
                           x \in Pointer!References(o) \/ (o = q /\ x = z)
    BY <1>3 DEF Pointer!References
  <2>1. x \in Pointer!References(o)' <=>
          /\ p'[x] = o
          /\ x \notin UncountedIn(r)
          /\ \A u \in PointerThreads : u # t => x \notin UncountedIn(todo[u])
    BY <1>2, <1>4, ReferencesAfter
  <2>2. x \in Pointer!References(o) <=>
          /\ p[x] = o
          /\ \A u \in PointerThreads : x \notin UncountedIn(todo[u])
    BY ReferenceIs
  <2>3. z \notin Pointer!References(o)
    BY <1>3, <1>9, ReferenceIs DEF s
  <2>4. CASE x = z
    BY <1>2, <1>6, <1>8, <1>10, <2>1, <2>3, <2>4
  <2>5. CASE x # z
    BY <1>2, <1>9, <2>1, <2>2, <2>3, <2>5 DEF s
  <2> QED
    BY <2>3, <2>4, <2>5
<1>12. DoomedIn(r) = {}
  <2>1. \A o \in Objects : o \in DoomedIn(r) => o \in DoomedIn(s)
    BY <1>1, TailDooms DEF r
  <2> QED
    BY <1>6, <2>1 DEF DoomedIn
<1>13. \A u \in PointerThreads : DoomedIn(todo'[u]) = DoomedIn(todo[u])
  BY <1>6, <1>7, <1>12 DEF s
<1>14. ASSUME q \in Objects
       PROVE  life[q] = "alive" /\ \A u \in PointerThreads : q \notin DoomedIn(todo[u])
  <2>1. CASE Pointer!References(q) # {}
    BY <1>14, <2>1, ReferredIsAlive DEF InOrder, NoReference
  <2>2. CASE IsNew(t, q)
    BY <1>14, <2>2 DEF InOrder, NoReference
  <2> QED
    BY <1>5, <1>14, <2>1, <2>2
<1>15. \A o \in Objects : ~IsNew(t, o)' /\ (IsNew(t, o) => o = q)
  BY <1>6, <1>7 DEF IsNew, s
<1>16. \A x \in Pointer!Pointers : x \notin Own(t) => p'[x] = p[x]
  BY <1>2
<1>17. \A u \in PointerThreads, o \in Objects : u # t =>
         /\ IsNew(u, o)' <=> IsNew(u, o)
         /\ IsNew(u, o) => o # q
  <2> SUFFICES ASSUME NEW u \in PointerThreads, NEW o \in Objects, u # t
               PROVE  /\ IsNew(u, o)' <=> IsNew(u, o)
                      /\ IsNew(u, o) => o # q
    OBVIOUS
  <2>1. IsNew(u, o)' <=> IsNew(u, o)
    BY <1>2, <1>7 DEF IsNew
  <2>2. IsNew(u, o) /\ p[z] = o => z \in UncountedIn(todo[u])
    BY <1>3 DEF InOrder, NoReference
  <2> QED
    BY <1>8, <1>10, <2>1, <2>2
<1>18. ASSUME NEW o \in Objects PROVE CountIsRight(o)'
  <2> DEFINE R == Pointer!References(o)
  <2>1. /\ IsFiniteSet(R)
        /\ life[o] # "deleted" => crefs[o] = Cardinality(R)
        /\ life[o] = "deleted" => R = {}
        /\ life[o] = "alive" /\ R = {} =>
             \E u \in PointerThreads : o \in DoomedIn(todo[u]) \/ IsNew(u, o)
    BY DEF InOrder, CountIsRight
  <2>2. z \notin R /\ Pointer!References(o)' = IF o = q THEN R \cup {z} ELSE R
    BY <1>11
  <2>3. crefs[o] \in Int /\ crefs \in [Objects -> Int]
    BY DEF PointerTypes, Pointer!TypeOK
  <2> HIDE DEF R
  <2>4. CASE o = q
    <3>1. life[o] = "alive" /\ Pointer!References(o)' = R \cup {z}
      BY <1>14, <2>2, <2>4
    <3>2. IsFiniteSet(R \cup {z}) /\ Cardinality(R \cup {z}) = Cardinality(R) + 1
      BY <2>1, <2>2, FS_AddElement
    <3>3. crefs'[o] = crefs[o] + 1
      BY <1>2, <2>3, <2>4, PointerNames
    <3>4. crefs'[o] = Cardinality(R \cup {z})
      BY <2>1, <3>1, <3>2, <3>3
    <3>5. life'[o] = "alive" /\ R \cup {z} # {}
      BY <1>2, <3>1
    <3> QED
      BY <3>1, <3>2, <3>4, <3>5 DEF CountIsRight
  <2>5. CASE o # q
    <3>1. Pointer!References(o)' = R /\ life'[o] = life[o]
      BY <1>2, <2>2, <2>5
    <3>2. crefs'[o] = crefs[o]
      BY <1>2, <1>8, <2>3, <2>5
    <3>3. ASSUME life[o] = "alive", R = {}
          PROVE  \E u \in PointerThreads : o \in DoomedIn(todo'[u]) \/ IsNew(u, o)'
      <4>1. PICK u \in PointerThreads : o \in DoomedIn(todo[u]) \/ IsNew(u, o)
        BY <2>1, <3>3
      <4>2. CASE o \in DoomedIn(todo[u])
        BY <1>13, <4>2
      <4>3. CASE IsNew(u, o)
        BY <1>15, <1>17, <2>5, <4>3
      <4> QED
        BY <4>1, <4>2, <4>3
    <3> QED
      BY <2>1, <3>1, <3>2, <3>3 DEF CountIsRight
  <2> QED
    BY <2>4, <2>5
<1>19. ASSUME NEW u \in PointerThreads, NEW o \in Objects PROVE NoReference(u, o)'
  <2>1. NoReference(u, o)
    BY DEF InOrder
  <2>2. ASSUME o \in DoomedIn(todo'[u])
        PROVE  life'[o] = "alive" /\ Pointer!References(o)' = {}
    <3>1. o \in DoomedIn(todo[u])
      BY <1>13, <2>2
    <3>2. o # q
      BY <1>14, <3>1
    <3> QED
      BY <1>2, <1>11, <2>1, <3>1, <3>2 DEF NoReference
  <2>3. ASSUME IsNew(u, o)'
        PROVE  /\ life'[o] = "alive"
               /\ \A x \in Pointer!Pointers : p'[x] = o => x \in UncountedIn(todo'[u])
               /\ \A w \in PointerThreads : o \notin DoomedIn(todo'[w])
    <3>1. u # t /\ IsNew(u, o)
      BY <1>15, <1>17, <2>3
    <3> QED
      BY <1>2, <1>7, <1>13, <2>1, <3>1 DEF NoReference
  <2> QED
    BY <2>2, <2>3 DEF NoReference
<1>20. \A u \in PointerThreads : u # t => DoomedIn(r) \cap DoomedIn(todo[u]) = {}
  BY <1>12
<1> QED
  BY <1>2, <1>4, <1>6, <1>16, <1>18, <1>19, <1>20, OrderKept

\* What a thread leaves uncounted, or counts first, is the last reference of no object
\* whose member it leaves uncounted as well.
LEMMA NotItsMember ==
  ASSUME PointerTypes, InOrder, NEW t \in PointerThreads, NEW z \in Own(t),
         NEW o \in Objects, Pointer!References(o) = {z}
  PROVE  o # z /\ o \notin UncountedIn(todo[t])
<1>1. o \notin DoomedIn(todo[t]) /\ InCall(t)
  BY DEF InOrder, NoReference
<1>2. o \notin writes[t]
  <2> SUFFICES ASSUME o \in writes[t] PROVE FALSE
    OBVIOUS
  <2>1. writes[t] = {o} /\ z \in Variables
    BY AssignedExists
  <2> QED
    BY <2>1, PointerNames DEF Own, DoomedIn
<1>3. o # t
  BY PointerNames
<1>4. o \notin Own(t)
  BY <1>1, <1>2, <1>3 DEF Own
<1> QED
  BY <1>1, <1>4, UncountedOwn DEF Own

\* A step before a sequence.
LEMMA StepBefore ==
  ASSUME NEW w \in Seq(PointerOps), NEW h \in PointerOps
  PROVE  LET q == <<h>> \o w
         IN q \in Seq(PointerOps) /\ q # <<>> /\ q[1] = h /\ Tail(q) = w
<1> DEFINE d == <<h>>
           q == d \o w
<1>1. d \in Seq(PointerOps) /\ Len(d) = 1 /\ d[1] = h
  OBVIOUS
<1> HIDE DEF d
<1>3. Len(w) \in Nat
  OBVIOUS
<1>0. /\ q \in Seq(PointerOps) /\ Len(q) = Len(d) + Len(w)
      /\ \A i \in 1 .. Len(d) + Len(w) : q[i] = IF i <= Len(d) THEN d[i] ELSE w[i - Len(d)]
  BY <1>1, ConcatProperties
<1>2. /\ q \in Seq(PointerOps) /\ Len(q) = 1 + Len(w)
      /\ \A i \in 1 .. 1 + Len(w) : q[i] = IF i <= 1 THEN d[i] ELSE w[i - 1]
  BY <1>0, <1>1, <1>3
<1> HIDE DEF q
<1>4. Len(q) # 0
  BY <1>2, <1>3
<1>5. q # <<>>
  BY <1>2, <1>4, NotEmpty
<1>6. q[1] = h
  BY <1>1, <1>2, <1>3
<1>7. /\ Tail(q) \in Seq(PointerOps) /\ Len(Tail(q)) = Len(q) - 1
      /\ \A i \in 1 .. Len(Tail(q)) : Tail(q)[i] = q[i + 1]
  BY <1>2, <1>5, HeadTailProperties
<1>8. Len(Tail(q)) = Len(w)
  BY <1>2, <1>3, <1>7
<1>9. \A i \in 1 .. Len(w) : Tail(q)[i] = w[i]
  <2> TAKE i \in 1 .. Len(w)
  <2>1. /\ i + 1 \in 1 .. 1 + Len(w) /\ ~(i + 1 <= 1) /\ (i + 1) - 1 = i
    BY <1>3
  <2>2. q[i + 1] = w[i]
    BY <1>2, <2>1
  <2> QED
    BY <1>7, <1>8, <2>2
<1>10. Tail(q) = w
  BY <1>7, <1>8, <1>9, SeqEqual
<1> QED
  BY <1>2, <1>5, <1>6, <1>10 DEF q, d

\* o is destroyed first.
DestroyedBefore(o, w) == << <<"downcount", o>>, <<"delete", o>> >> \o w

\* What a destruction ahead leaves uncounted.
LEMMA PushedUncounted ==
  ASSUME NEW w \in Seq(PointerOps), NEW o \in Objects, o \notin UncountedIn(w)
  PROVE  /\ \A x \in Pointer!Pointers :
              x \in UncountedIn(DestroyedBefore(o, w)) <=> x \in UncountedIn(w)
         /\ DoomedIn(DestroyedBefore(o, w)) = DoomedIn(w) \cup {o}
<1> DEFINE d == <<"downcount", o>>
           e == <<"delete", o>>
           q == <<e>> \o w
           r == DestroyedBefore(o, w)
<1>1. d \in PointerOps /\ e \in PointerOps
  BY PointerNames DEF PointerOps
<1>2. q \in Seq(PointerOps) /\ q # <<>> /\ q[1] = e /\ Tail(q) = w
  BY <1>1, StepBefore
<1>7. r = <<d>> \o q
  <2>1. <<d>> \in Seq(PointerOps) /\ <<e>> \in Seq(PointerOps)
    BY <1>1
  <2>2. <<d>> \o <<e>> = <<d, e>>
    <3> DEFINE u == <<d>>
               v == <<e>>
               c == <<d, e>>
    <3> HIDE DEF d, e
    <3>1. /\ u \in Seq(PointerOps) /\ v \in Seq(PointerOps) /\ c \in Seq(PointerOps)
          /\ Len(u) = 1 /\ Len(v) = 1 /\ u[1] = d /\ v[1] = e
          /\ Len(c) = 2 /\ c[1] = d /\ c[2] = e
      BY <1>1
    <3> HIDE DEF u, v, c
    <3>2. /\ u \o v \in Seq(PointerOps) /\ Len(u \o v) = Len(u) + Len(v)
          /\ \A i \in 1 .. Len(u) + Len(v) :
               (u \o v)[i] = IF i <= Len(u) THEN u[i] ELSE v[i - Len(u)]
      BY <3>1, ConcatProperties
    <3>3. Len(u \o v) = Len(c) /\ \A i \in 1 .. Len(u \o v) : (u \o v)[i] = c[i]
      BY <3>1, <3>2
    <3>4. u \o v = c
      BY <3>1, <3>2, <3>3, SeqEqual
    <3> QED
      BY <3>4 DEF u, v, c
  <2>3. (<<d>> \o <<e>>) \o w = <<d>> \o (<<e>> \o w)
    BY <2>1, ConcatAssociative
  <2> QED
    BY <2>2, <2>3 DEF DestroyedBefore
<1> HIDE DEF q, r
<1>8. r \in Seq(PointerOps) /\ r # <<>> /\ r[1] = d /\ Tail(r) = q
  BY <1>1, <1>2, <1>7, StepBefore
<1>3. \A x \in Pointer!Pointers : x \in UncountedIn(q) <=> o = x \/ x \in UncountedIn(w)
  <2> TAKE x \in Pointer!Pointers
  <2>1. q[1][1] = "delete" /\ q[1][2] = o /\ q[1] # <<"downcount", x>>
    BY <1>2
  <2> QED
    BY <1>2, <2>1, UncountedRest
<1>4. \A x \in Pointer!Pointers : x \in UncountedIn(r) <=> o # x /\ x \in UncountedIn(q)
  <2> TAKE x \in Pointer!Pointers
  <2>1. r[1][1] = "downcount" /\ (r[1] = <<"downcount", x>> <=> x = o)
    BY <1>8
  <2> QED
    BY <1>2, <1>8, <2>1, UncountedRest
<1>5. \A c \in Objects : c \in DoomedIn(r) <=> c = o \/ c \in DoomedIn(w)
  <2> TAKE c \in Objects
  <2>1. c \in DoomedIn(q) <=> q[1] = <<"delete", c>> \/ c \in DoomedIn(w)
    BY <1>2, TailDooms
  <2>2. c \in DoomedIn(r) <=> r[1] = <<"delete", c>> \/ c \in DoomedIn(q)
    BY <1>8, TailDooms
  <2>3. r[1] # <<"delete", c>> /\ (q[1] = <<"delete", c>> <=> c = o)
    BY <1>2, <1>8
  <2> QED
    BY <2>1, <2>2, <2>3
<1>6. DoomedIn(r) = DoomedIn(w) \cup {o}
  BY <1>5 DEF DoomedIn
<1>9. o \notin UncountedIn(w)
  OBVIOUS
<1> QED
  BY <1>3, <1>4, <1>6, <1>9 DEF r

\* The thread gives up a counted reference: with the last one it goes on to destroy
\* the object.
GivesUp(t, z, r, o) ==
  /\ todo[t] # <<>> /\ todo[t][1] = <<"downcount", z>> /\ z \in Pointer!Pointers
  /\ o \in Objects /\ o = p[z]
  /\ r = IF crefs[o] = 1 THEN DestroyedBefore(o, Tail(todo[t])) ELSE Tail(todo[t])

\* Then its object has one counted reference less.
LEMMA GivesUpOne ==
  ASSUME PointerTypes, InOrder, NEW t \in PointerThreads, NEW z, NEW r, NEW o,
         GivesUp(t, z, r, o), p' = p, Pointer!GoesOn(t, r)
  PROVE  /\ z \in Pointer!References(o) /\ z \in Own(t)
         /\ crefs[o] = Cardinality(Pointer!References(o))
         /\ r \in Seq(PointerOps)
         /\ InCall(t)'
         /\ AssigningNew(r, t) <=> AssigningNew(todo[t], t)
         /\ \A x \in Pointer!Pointers :
              x \in UncountedIn(r) <=> x = z \/ x \in UncountedIn(todo[t])
         /\ DoomedIn(r) = DoomedIn(todo[t]) \cup
              (IF Pointer!References(o) = {z} THEN {o} ELSE {})
<1> DEFINE s == todo[t]
           w == Tail(s)
           R == Pointer!References(o)
<1>1. /\ s \in Seq(PointerOps) /\ s # <<>> /\ s[1] = <<"downcount", z>>
      /\ z \in Pointer!Pointers /\ o \in Objects /\ o = p[z]
      /\ w \in Seq(PointerOps) /\ s[1][2] = z
  BY DEF GivesUp, PointerTypes
<1>2. r = IF crefs[o] = 1 THEN DestroyedBefore(o, w) ELSE w
  BY DEF GivesUp
<1> HIDE DEF w, s
<1>3. z \notin UncountedIn(s) /\ (z \in UncountedIn(s) <=> FALSE)
  BY <1>1, UncountedRest
<1>4. z \in Own(t)
  BY <1>1, HeadUses DEF s
<1>5. z \in R
  BY <1>1, <1>3, <1>4, OwnIsCounted DEF s
<1>6. life[o] = "alive" /\ \A u \in PointerThreads : o \notin DoomedIn(todo[u])
  BY <1>1, <1>5, ReferredIsAlive DEF InOrder, NoReference
<1>7. IsFiniteSet(R) /\ crefs[o] = Cardinality(R)
  BY <1>1, <1>6 DEF InOrder, CountIsRight
<1>8. crefs[o] = 1 <=> R = {z}
  <2>1. Cardinality(R) = 1 <=> \E x : R = {x}
    BY <1>7, FS_Singleton
  <2> QED
    BY <1>5, <1>7, <2>1
<1>9. LeftAfter(s, r, o)
  BY <1>1, <1>2, <1>6 DEF LeftAfter, DestroyedBefore, w, s
<1>10. /\ z \in UncountedIn(w)
       /\ r \in Seq(PointerOps)
       /\ InCall(t)'
       /\ AssigningNew(r, t) <=> AssigningNew(s, t)
  BY <1>1, <1>9, DowncountMoves DEF w, s
<1> HIDE DEF R
<1>11. \A x \in Pointer!Pointers : x \in UncountedIn(w) <=> x = z \/ x \in UncountedIn(s)
  <2> TAKE x \in Pointer!Pointers
  <2>1. s[1] = <<"downcount", x>> <=> x = z
    BY <1>1
  <2>2. s[1][1] = "downcount"
    BY <1>1
  <2> QED
    BY <1>1, <1>10, <2>1, <2>2, UncountedRest DEF w
<1>12. DoomedIn(w) = DoomedIn(s)
  <2>1. \A c \in Objects : c \in DoomedIn(s) <=> c \in DoomedIn(w)
    <3> TAKE c \in Objects
    <3>1. s[1] # <<"delete", c>>
      BY <1>1
    <3> QED
      BY <1>1, <3>1, TailDooms DEF w
  <2> QED
    BY <2>1 DEF DoomedIn
<1>13. CASE R = {z}
  <2>1. r = DestroyedBefore(o, w)
    BY <1>2, <1>8, <1>13
  <2>2. o # z /\ o \notin UncountedIn(s)
    BY <1>1, <1>4, <1>13, NotItsMember DEF R, s
  <2>3. o \notin UncountedIn(w)
    BY <1>1, <1>11, <2>2, PointerNames
  <2>4. /\ \A x \in Pointer!Pointers : x \in UncountedIn(r) <=> x \in UncountedIn(w)
        /\ DoomedIn(r) = DoomedIn(w) \cup {o}
    BY <1>1, <2>1, <2>3, PushedUncounted
  <2> QED
    BY <1>4, <1>5, <1>7, <1>10, <1>11, <1>12, <1>13, <2>4 DEF R, s
<1>14. CASE R # {z}
  <2>1. r = w
    BY <1>2, <1>8, <1>14
  <2> QED
    BY <1>4, <1>5, <1>7, <1>10, <1>11, <1>12, <1>14, <2>1 DEF R, s
<1> QED
  BY <1>13, <1>14

\* After that the order is as before.
LEMMA GivesUpKeeps ==
  ASSUME PointerTypes, InOrder, NEW t \in PointerThreads, NEW z, NEW r, NEW o,
         GivesUp(t, z, r, o), p' = p, life' = life, Pointer!GoesOn(t, r),
         crefs' = [crefs EXCEPT ![o] = @ - 1]
  PROVE  InOrder'
<1> DEFINE R == Pointer!References(o)
<1>1. o \in Objects /\ o = p[z] /\ z \in Pointer!Pointers
  BY DEF GivesUp
<1>2. /\ z \in R /\ z \in Own(t)
      /\ crefs[o] = Cardinality(R)
      /\ r \in Seq(PointerOps)
      /\ InCall(t)'
      /\ AssigningNew(r, t) <=> AssigningNew(todo[t], t)
      /\ \A x \in Pointer!Pointers :
           x \in UncountedIn(r) <=> x = z \/ x \in UncountedIn(todo[t])
      /\ DoomedIn(r) = DoomedIn(todo[t]) \cup (IF R = {z} THEN {o} ELSE {})
  BY GivesUpOne
<1> HIDE DEF R
<1>3. todo'[t] = r /\ \A u \in PointerThreads : u # t => todo'[u] = todo[u]
  BY <1>2, GoneOn
<1>4. life[o] = "alive" /\ \A u \in PointerThreads : o \notin DoomedIn(todo[u])
  BY <1>1, <1>2, ReferredIsAlive DEF R, InOrder, NoReference
<1>5. IsFiniteSet(R)
  BY <1>1 DEF InOrder, CountIsRight, R
<1>6. \A c \in Objects : Pointer!References(c)' =
        IF c = o THEN R \ {z} ELSE Pointer!References(c)
  <2> SUFFICES ASSUME NEW c \in Objects, NEW x \in Pointer!Pointers
               PROVE  x \in Pointer!References(c)' <=>
                        x \in Pointer!References(c) /\ (c = o => x # z)
    BY DEF Pointer!References, R
  <2>1. x \in Pointer!References(c)' <=>
          /\ p'[x] = c
          /\ x \notin UncountedIn(r)
          /\ \A u \in PointerThreads : u # t => x \notin UncountedIn(todo[u])
    BY <1>2, ReferencesAfter
  <2>2. x \in Pointer!References(c) <=>
          /\ p[x] = c
          /\ \A u \in PointerThreads : x \notin UncountedIn(todo[u])
    BY ReferenceIs
  <2> QED
    BY <1>1, <1>2, <2>1, <2>2
<1>7. \A u \in PointerThreads : DoomedIn(todo'[u]) =
        IF u = t THEN DoomedIn(todo[u]) \cup (IF R = {z} THEN {o} ELSE {})
                 ELSE DoomedIn(todo[u])
  BY <1>2, <1>3
<1>8. \A u \in PointerThreads, c \in Objects : IsNew(u, c)' <=> IsNew(u, c)
  <2> SUFFICES ASSUME NEW u \in PointerThreads, NEW c \in Objects
               PROVE  IsNew(u, c)' <=> IsNew(u, c)
    OBVIOUS
  <2>1. CASE u = t
    BY <1>2, <1>3, <2>1 DEF IsNew
  <2>2. CASE u # t
    BY <1>3, <2>2 DEF IsNew
  <2> QED
    BY <2>1, <2>2
<1>9. \A u \in PointerThreads : ~IsNew(u, o)
  BY <1>1, <1>2, NewIsUnreferenced DEF R
<1>10. ASSUME NEW u \in PointerThreads, NEW x \in Pointer!Pointers,
              x \in UncountedIn(todo[u])
       PROVE  x \in UncountedIn(todo'[u])
  <2>1. CASE u = t
    BY <1>2, <1>3, <1>10, <2>1
  <2>2. CASE u # t
    BY <1>3, <1>10, <2>2
  <2> QED
    BY <2>1, <2>2
<1>11. ASSUME NEW c \in Objects PROVE CountIsRight(c)'
  <2>1. CASE c = o
    <3>1. IsFiniteSet(R \ {z}) /\ Cardinality(R \ {z}) = Cardinality(R) - 1
      BY <1>2, <1>5, FS_RemoveElement
    <3>2. crefs'[c] = Cardinality(R \ {z})
      BY <1>1, <1>2, <2>1, <3>1 DEF PointerTypes, Pointer!TypeOK
    <3>3. Pointer!References(c)' = R \ {z} /\ life'[c] = "alive"
      BY <1>4, <1>6, <2>1
    <3>4. R \ {z} = {} => c \in DoomedIn(todo'[t])
      BY <1>2, <1>7, <2>1
    <3> QED
      BY <3>1, <3>2, <3>3, <3>4 DEF CountIsRight
  <2>2. CASE c # o
    <3>1. Pointer!References(c)' = Pointer!References(c) /\ life'[c] = life[c]
      BY <1>6, <2>2
    <3>2. crefs'[c] = crefs[c]
      BY <2>2 DEF PointerTypes, Pointer!TypeOK
    <3>3. CountIsRight(c)
      BY DEF InOrder
    <3>4. \A u \in PointerThreads : c \in DoomedIn(todo[u]) => c \in DoomedIn(todo'[u])
      BY <1>7
    <3> QED
      BY <1>8, <3>1, <3>2, <3>3, <3>4 DEF CountIsRight
  <2> QED
    BY <2>1, <2>2
<1>12. ASSUME NEW u \in PointerThreads, NEW c \in Objects PROVE NoReference(u, c)'
  <2>1. NoReference(u, c)
    BY DEF InOrder
  <2>2. ASSUME c \in DoomedIn(todo'[u])
        PROVE  life'[c] = "alive" /\ Pointer!References(c)' = {}
    <3>1. CASE c = o
      <4>1. R = {z}
        BY <1>4, <1>7, <2>2, <3>1
      <4> QED
        BY <1>4, <1>6, <3>1, <4>1
    <3>2. CASE c # o
      <4>1. c \in DoomedIn(todo[u])
        BY <1>7, <2>2, <3>2
      <4> QED
        BY <1>6, <2>1, <3>2, <4>1 DEF NoReference
    <3> QED
      BY <3>1, <3>2
  <2>3. ASSUME IsNew(u, c)'
        PROVE  /\ life'[c] = "alive"
               /\ \A x \in Pointer!Pointers : p'[x] = c => x \in UncountedIn(todo'[u])
               /\ \A w \in PointerThreads : c \notin DoomedIn(todo'[w])
    <3>1. IsNew(u, c) /\ c # o
      BY <1>8, <1>9, <2>3
    <3>2. \A w \in PointerThreads : c \notin DoomedIn(todo'[w])
      BY <1>7, <2>1, <3>1 DEF NoReference
    <3> QED
      BY <1>10, <2>1, <3>1, <3>2 DEF NoReference
  <2> QED
    BY <2>2, <2>3 DEF NoReference
<1>13. \A u \in PointerThreads : u # t => DoomedIn(r) \cap DoomedIn(todo[u]) = {}
  <2> SUFFICES ASSUME NEW u \in PointerThreads, u # t
               PROVE  DoomedIn(r) \cap DoomedIn(todo[u]) = {}
    OBVIOUS
  <2>1. DoomedIn(todo[t]) \cap DoomedIn(todo[u]) = {}
    BY DEF InOrder, Apart
  <2>2. DoomedIn(r) \subseteq DoomedIn(todo[t]) \cup {o} /\ o \notin DoomedIn(todo[u])
    BY <1>2, <1>4
  <2> QED
    BY <2>1, <2>2
<1>14. \A x \in Pointer!Pointers : x \notin Own(t) => p'[x] = p[x]
  OBVIOUS
<1> QED
  BY <1>2, <1>11, <1>12, <1>13, <1>14, OrderKept

\* A pointer that holds nothing is given up.
LEMMA GivesUpNothing ==
  ASSUME PointerTypes, InOrder, NEW t \in PointerThreads, NEW z \in Pointer!Pointers,
         todo[t] # <<>>, todo[t][1] = <<"downcount", z>>, p[z] = NULL,
         p' = p, life' = life, crefs' = crefs, Pointer!GoesOn(t, Tail(todo[t]))
  PROVE  InOrder'
<1> DEFINE s == todo[t]
           r == Tail(s)
<1>1. s \in Seq(PointerOps) /\ s # <<>> /\ s[1] = <<"downcount", z>>
  BY DEF PointerTypes
<1>2. LeftAfter(s, r, z)
  BY DEF LeftAfter
<1>4. Pointer!GoesOn(t, r)
  OBVIOUS
<1> HIDE DEF r
<1>3. /\ r \in Seq(PointerOps)
      /\ InCall(t)'
      /\ AssigningNew(r, t) <=> AssigningNew(s, t)
  <2>1. /\ todo[t] # <<>> /\ todo[t][1] = <<"downcount", z>> /\ p' = p
        /\ LeftAfter(todo[t], r, z) /\ Pointer!GoesOn(t, r)
    BY <1>1, <1>2, <1>4
  <2> HIDE DEF s
  <2>2. /\ r \in Seq(PointerOps)
        /\ InCall(t)'
        /\ AssigningNew(r, t) <=> AssigningNew(todo[t], t)
    BY <2>1, DowncountMoves
  <2> QED
    BY <2>2 DEF s
<1>5. todo'[t] = r /\ \A u \in PointerThreads : u # t => todo'[u] = todo[u]
  BY <1>3, <1>4, GoneOn
<1> HIDE DEF s
<1>6. \A x \in Pointer!Pointers : x # z =>
        (x \in UncountedIn(r) <=> x \in UncountedIn(s))
  <2> SUFFICES ASSUME NEW x \in Pointer!Pointers, x # z
               PROVE  x \in UncountedIn(r) <=> x \in UncountedIn(s)
    OBVIOUS
  <2>1. s[1] # <<"downcount", x>> /\ s[1][1] = "downcount"
    BY <1>1
  <2> QED
    BY <1>1, <2>1, UncountedRest DEF r
<1>7. DoomedIn(r) = DoomedIn(s)
  <2>1. \A c \in Objects : c \in DoomedIn(s) <=> c \in DoomedIn(r)
    <3> TAKE c \in Objects
    <3>1. s[1] # <<"delete", c>>
      BY <1>1
    <3> QED
      BY <1>1, <3>1, TailDooms DEF r
  <2> QED
    BY <2>1 DEF DoomedIn
<1>8. \A c \in Objects : c # NULL
  BY PointerNames
<1>9. \A c \in Objects : Pointer!References(c)' = Pointer!References(c)
  <2> SUFFICES ASSUME NEW c \in Objects, NEW x \in Pointer!Pointers
               PROVE  x \in Pointer!References(c)' <=> x \in Pointer!References(c)
    BY DEF Pointer!References
  <2>1. x \in Pointer!References(c)' <=>
          /\ p'[x] = c
          /\ x \notin UncountedIn(r)
          /\ \A u \in PointerThreads : u # t => x \notin UncountedIn(todo[u])
    BY <1>3, <1>4, ReferencesAfter
  <2>2. x \in Pointer!References(c) <=>
          /\ p[x] = c
          /\ \A u \in PointerThreads : x \notin UncountedIn(todo[u])
    BY ReferenceIs
  <2> QED
    BY <1>6, <1>8, <2>1, <2>2 DEF s
<1>10. ASSUME NEW u \in PointerThreads, NEW c \in Objects, IsNew(u, c),
              NEW x \in Pointer!Pointers, p'[x] = c
       PROVE  x \in UncountedIn(todo'[u])
  <2>1. x \in UncountedIn(todo[u]) /\ x # z
    BY <1>8, <1>10 DEF InOrder, NoReference
  <2>2. CASE u = t
    BY <1>5, <1>6, <2>1, <2>2 DEF s
  <2>3. CASE u # t
    BY <1>5, <2>1, <2>3
  <2> QED
    BY <2>2, <2>3
<1>11. \A x \in Pointer!Pointers : x \notin Own(t) => p'[x] = p[x]
  OBVIOUS
<1>12. /\ AssigningNew(r, t) <=> AssigningNew(todo[t], t)
       /\ AssigningNew(todo[t], t) => p'[t] = p[t]
       /\ DoomedIn(r) = DoomedIn(todo[t])
  BY <1>3, <1>7 DEF s
<1> QED
  BY <1>3, <1>4, <1>9, <1>10, <1>11, <1>12, QuietKeeps

\* A count is lowered.
LEMMA DowncountKeeps ==
  ASSUME PointerTypes, InOrder, NEW t \in PointerThreads, Pointer!downcount(t)
  PROVE  InOrder'
<1> DEFINE s == todo[t]
           z == s[1][2]
           o == p[z]
<1>1. s # <<>> /\ s[1][1] = "downcount" /\ s \in Seq(PointerOps)
  BY DEF Pointer!downcount, Pointer!Does, PointerTypes
<1>2. s[1] = <<"downcount", z>> /\ z \in Pointer!Pointers
  BY <1>1, OpsAre
<1>3. o \in Objects \cup {NULL}
  BY <1>2 DEF PointerTypes, Pointer!TypeOK
<1>4. p' = p /\ life' = life
  BY DEF Pointer!downcount
<1>5. CASE o = NULL
  <2>1. crefs' = crefs /\ Pointer!GoesOn(t, Tail(s))
    BY <1>5 DEF Pointer!downcount
  <2> QED
    BY <1>1, <1>2, <1>4, <1>5, <2>1, GivesUpNothing
<1>6. CASE o # NULL
  <2> DEFINE r == IF crefs[o] = 1 THEN DestroyedBefore(o, Tail(s)) ELSE Tail(s)
             d == IF crefs[o] = 1 THEN << <<"downcount", o>>, <<"delete", o>> >> ELSE <<>>
  <2>1. crefs' = [crefs EXCEPT ![o] = @ - 1] /\ Pointer!GoesOn(t, d \o Tail(s))
    BY <1>6 DEF Pointer!downcount
  <2>2. d \o Tail(s) = r
    <3>1. Tail(s) \in Seq(PointerOps)
      BY <1>1
    <3>2. <<>> \o Tail(s) = Tail(s)
      BY <3>1, ConcatEmptySeq
    <3> HIDE DEF s, o, z
    <3>3. CASE crefs[o] = 1
      <4>1. d = << <<"downcount", o>>, <<"delete", o>> >> /\ r = DestroyedBefore(o, Tail(s))
        BY <3>3
      <4> HIDE DEF d, r
      <4> QED
        BY <4>1 DEF DestroyedBefore
    <3>4. CASE crefs[o] # 1
      <4>1. d = <<>> /\ r = Tail(s)
        BY <3>4
      <4> HIDE DEF d, r
      <4> QED
        BY <3>2, <4>1
    <3> HIDE DEF d, r
    <3> QED
      BY <3>3, <3>4
  <2>4. GivesUp(t, z, r, o)
    BY <1>1, <1>2, <1>3, <1>6 DEF GivesUp
  <2> HIDE DEF r, d, z, o
  <2>3. Pointer!GoesOn(t, r)
    BY <2>1, <2>2
  <2> QED
    BY <1>4, <2>1, <2>3, <2>4, GivesUpKeeps
<1> QED
  BY <1>5, <1>6

\* An object is deleted.
LEMMA DeletionKeeps ==
  ASSUME PointerTypes, InOrder, NEW t \in PointerThreads, Pointer!Delete(t)
  PROVE  InOrder'
<1> DEFINE s == todo[t]
           r == Tail(s)
           o == s[1][2]
<1>1. s # <<>> /\ s[1][1] = "delete" /\ s \in Seq(PointerOps)
  BY DEF Pointer!Delete, Pointer!Does, PointerTypes
<1>2. s[1] = <<"delete", o>> /\ o \in Pointer!Pointers
  BY <1>1, OpsAre
<1>3. /\ p' = [p EXCEPT ![o] = NULL] /\ life' = [life EXCEPT ![o] = "deleted"]
      /\ crefs' = crefs /\ Pointer!GoesOn(t, r)
  BY DEF Pointer!Delete
<1> HIDE DEF o
<1>4. /\ o \in Objects
      /\ o \in DoomedIn(s)
      /\ o \notin DoomedIn(r)
      /\ InCall(t)'
      /\ AssigningNew(r, t) <=> AssigningNew(s, t)
  BY <1>1, <1>2, <1>3, DeleteMoves
<1>5. r \in Seq(PointerOps)
  BY <1>1
<1> HIDE DEF r
<1>6. todo'[t] = r /\ \A u \in PointerThreads : u # t => todo'[u] = todo[u]
  BY <1>3, <1>5, GoneOn
<1>7. /\ life[o] = "alive" /\ Pointer!References(o) = {}
      /\ \A u \in PointerThreads : ~IsNew(u, o)
  BY <1>4 DEF InOrder, NoReference
<1>8. \A u \in PointerThreads : u # t => o \notin DoomedIn(todo[u])
  BY <1>4 DEF InOrder, Apart
<1> HIDE DEF s
<1>9. \A x \in Pointer!Pointers : x \in UncountedIn(s) <=> x = o \/ x \in UncountedIn(r)
  <2> TAKE x \in Pointer!Pointers
  <2>1. s[1] # <<"downcount", x>> /\ s[1][1] = "delete" /\ s[1][2] = o
    BY <1>2
  <2> QED
    BY <1>1, <2>1, UncountedRest DEF r
<1>10. \A c \in Objects : c \in DoomedIn(r) <=> c \in DoomedIn(s) /\ c # o
  <2> TAKE c \in Objects
  <2>1. s[1] = <<"delete", c>> <=> c = o
    BY <1>2
  <2>2. c \in DoomedIn(s) <=> s[1] = <<"delete", c>> \/ c \in DoomedIn(r)
    BY <1>1, TailDooms DEF r
  <2> QED
    BY <1>4, <2>1, <2>2
<1>11. \A u \in PointerThreads, c \in Objects :
         c \in DoomedIn(todo'[u]) <=> c \in DoomedIn(todo[u]) /\ c # o
  <2> SUFFICES ASSUME NEW u \in PointerThreads, NEW c \in Objects
               PROVE  c \in DoomedIn(todo'[u]) <=> c \in DoomedIn(todo[u]) /\ c # o
    OBVIOUS
  <2>1. CASE u = t
    BY <1>6, <1>10, <2>1 DEF s
  <2>2. CASE u # t
    BY <1>6, <1>8, <2>2
  <2> QED
    BY <2>1, <2>2
<1>12. p'[o] = NULL /\ \A x \in Pointer!Pointers : x # o => p'[x] = p[x]
  BY <1>2, <1>3 DEF PointerTypes, Pointer!TypeOK
<1>13. life'[o] = "deleted" /\ \A c \in Objects : c # o => life'[c] = life[c]
  BY <1>3, <1>4 DEF PointerTypes, Pointer!TypeOK
<1>14. \A c \in Objects : c # NULL
  BY PointerNames
<1>15. \A c \in Objects : Pointer!References(c)' = Pointer!References(c)
  <2> SUFFICES ASSUME NEW c \in Objects, NEW x \in Pointer!Pointers
               PROVE  x \in Pointer!References(c)' <=> x \in Pointer!References(c)
    BY DEF Pointer!References
  <2>1. x \in Pointer!References(c)' <=>
          /\ p'[x] = c
          /\ x \notin UncountedIn(r)
          /\ \A u \in PointerThreads : u # t => x \notin UncountedIn(todo[u])
    BY <1>3, <1>5, ReferencesAfter
  <2>2. x \in Pointer!References(c) <=>
          /\ p[x] = c
          /\ \A u \in PointerThreads : x \notin UncountedIn(todo[u])
    BY ReferenceIs
  <2>3. CASE x = o
    BY <1>9, <1>12, <1>14, <2>1, <2>2, <2>3 DEF s
  <2>4. CASE x # o
    BY <1>9, <1>12, <2>1, <2>2, <2>4 DEF s
  <2> QED
    BY <2>3, <2>4
<1>16. \A u \in PointerThreads, c \in Objects : IsNew(u, c)' <=> IsNew(u, c)
  <2> SUFFICES ASSUME NEW u \in PointerThreads, NEW c \in Objects
               PROVE  IsNew(u, c)' <=> IsNew(u, c)
    OBVIOUS
  <2>0. p'[u] = p[u]
    BY <1>4, <1>12, PointerNames
  <2>1. CASE u = t
    BY <1>4, <1>6, <2>0, <2>1 DEF IsNew, s
  <2>2. CASE u # t
    BY <1>6, <2>0, <2>2 DEF IsNew
  <2> QED
    BY <2>1, <2>2
<1>17. ASSUME NEW c \in Objects PROVE CountIsRight(c)'
  <2>1. CountIsRight(c)
    BY DEF InOrder
  <2>2. CASE c = o
    BY <1>7, <1>13, <1>15, <2>1, <2>2 DEF CountIsRight
  <2>3. CASE c # o
    <3>1. /\ life'[c] = life[c] /\ crefs'[c] = crefs[c]
          /\ Pointer!References(c)' = Pointer!References(c)
      BY <1>3, <1>13, <1>15, <2>3
    <3>2. \A u \in PointerThreads : c \in DoomedIn(todo[u]) => c \in DoomedIn(todo'[u])
      BY <1>11, <2>3
    <3> QED
      BY <1>16, <2>1, <3>1, <3>2 DEF CountIsRight
  <2> QED
    BY <2>2, <2>3
<1>18. ASSUME NEW u \in PointerThreads, NEW c \in Objects PROVE NoReference(u, c)'
  <2>1. NoReference(u, c)
    BY DEF InOrder
  <2>2. ASSUME c \in DoomedIn(todo'[u])
        PROVE  life'[c] = "alive" /\ Pointer!References(c)' = {}
    BY <1>11, <1>13, <1>15, <2>1, <2>2 DEF NoReference
  <2>3. ASSUME IsNew(u, c)'
        PROVE  /\ life'[c] = "alive"
               /\ \A x \in Pointer!Pointers : p'[x] = c => x \in UncountedIn(todo'[u])
               /\ \A w \in PointerThreads : c \notin DoomedIn(todo'[w])
    <3>1. IsNew(u, c) /\ c # o
      BY <1>7, <1>16, <2>3
    <3>2. \A w \in PointerThreads : c \notin DoomedIn(todo'[w])
      BY <1>11, <2>1, <3>1 DEF NoReference
    <3>3. ASSUME NEW x \in Pointer!Pointers, p'[x] = c PROVE x \in UncountedIn(todo'[u])
      <4>1. x # o
        BY <1>12, <1>14, <3>3
      <4>2. x \in UncountedIn(todo[u])
        BY <1>12, <2>1, <3>1, <3>3, <4>1 DEF NoReference
      <4>3. CASE u = t
        BY <1>6, <1>9, <4>1, <4>2, <4>3 DEF s
      <4>4. CASE u # t
        BY <1>6, <4>2, <4>4
      <4> QED
        BY <4>3, <4>4
    <3> QED
      BY <1>13, <2>1, <3>1, <3>2, <3>3 DEF NoReference
  <2> QED
    BY <2>2, <2>3 DEF NoReference
<1>19. \A u \in PointerThreads : u # t => DoomedIn(r) \cap DoomedIn(todo[u]) = {}
  <2>1. DoomedIn(r) \subseteq DoomedIn(s)
    BY <1>10 DEF DoomedIn
  <2> QED
    BY <2>1 DEF InOrder, Apart, s
<1>20. \A x \in Pointer!Pointers : x \notin Own(t) => p'[x] = p[x]
  BY <1>4, <1>12 DEF Own, s
<1> QED
  BY <1>3, <1>4, <1>5, <1>17, <1>18, <1>19, <1>20, OrderKept

-----------------------------------------------------------------------------
\* The counted pointers: each call keeps the order.

\* A thread begins a call, that assigns x and uses rs, with the steps s; as long as
\* nothing races.
Begins(t, x, rs, s) ==
  /\ x \in Variables \cup Objects /\ rs \subseteq Variables \cup Objects
  /\ s \in Seq(PointerOps) /\ s # <<>>
  /\ Pointer!Call(t, x, rs, s)
  /\ "raced" \notin mishaps'

\* What a call changes.
LEMMA BegunIs ==
  ASSUME PointerTypes, InOrder, NEW t \in PointerThreads, NEW x, NEW rs, NEW s,
         Begins(t, x, rs, s)
  PROVE  /\ todo[t] = <<>> /\ reads[t] = {} /\ writes[t] = {} /\ p[t] = NULL
         /\ mishaps' = {}
         /\ todo'[t] = s /\ reads'[t] = rs /\ writes'[t] = {x}
         /\ \A u \in PointerThreads : u # t =>
              /\ todo'[u] = todo[u] /\ reads'[u] = reads[u] /\ writes'[u] = writes[u]
              /\ x \notin reads[u] \cup writes[u] /\ rs \cap writes[u] = {}
         /\ UncountedIn(todo[t]) = {} /\ DoomedIn(todo[t]) = {} /\ Own(t) = {t}
<1>1. Pointer!Call(t, x, rs, s) /\ "raced" \notin mishaps'
  BY DEF Begins
<1>2. todo[t] = <<>> /\ InCall(t)
  BY <1>1 DEF Pointer!Call, InOrder
<1>3. reads[t] = {} /\ writes[t] = {} /\ p[t] = NULL
  BY <1>2, IdleIs
<1>4. /\ todo'[t] = s /\ reads'[t] = rs /\ writes'[t] = {x}
      /\ \A u \in PointerThreads : u # t =>
           todo'[u] = todo[u] /\ reads'[u] = reads[u] /\ writes'[u] = writes[u]
  BY <1>1 DEF Pointer!Call, PointerTypes, Pointer!TypeOK
<1>5. mishaps' = {m \in {"raced"} : \E u \in PointerThreads \ {t} :
          \/ x \in reads[u] \cup writes[u]
          \/ rs \cap writes[u] # {}}
  BY <1>1 DEF Pointer!Call
<1>6. /\ mishaps' = {}
      /\ \A u \in PointerThreads : u # t =>
           x \notin reads[u] \cup writes[u] /\ rs \cap writes[u] = {}
  BY <1>1, <1>5
<1>7. UncountedIn(todo[t]) = {} /\ DoomedIn(todo[t]) = {}
  BY <1>2, UncountedInNone DEF DoomedIn
<1>8. Own(t) = {t}
  BY <1>3, <1>7 DEF Own
<1> QED
  BY <1>2, <1>3, <1>4, <1>6, <1>7, <1>8

\* The call creates o for its temporary, or nothing.
Creates(t, s, o) ==
  \/ p' = p /\ life' = life /\ ~AssigningNew(s, t)
  \/ /\ o \in Objects /\ life[o] = "unborn"
     /\ p' = [p EXCEPT ![t] = o] /\ life' = [life EXCEPT ![o] = "alive"]
     /\ t \in UncountedIn(s) /\ AssigningNew(s, t)

\* A call that counts what its steps say leaves the order as it is.
LEMMA BegunKeeps ==
  ASSUME PointerTypes, InOrder, NEW t \in PointerThreads, NEW x, NEW rs, NEW s,
         Begins(t, x, rs, s), NEW o, Creates(t, s, o), crefs' = crefs,
         InCall(t)', DoomedIn(s) = {},
         \A q \in UncountedIn(s) : p[q] = NULL
  PROVE  InOrder'
<1>1. /\ todo[t] = <<>> /\ p[t] = NULL
      /\ mishaps' = {}
      /\ todo'[t] = s /\ reads'[t] = rs /\ writes'[t] = {x}
      /\ \A u \in PointerThreads : u # t =>
           /\ todo'[u] = todo[u] /\ reads'[u] = reads[u] /\ writes'[u] = writes[u]
           /\ x \notin reads[u] \cup writes[u] /\ rs \cap writes[u] = {}
      /\ UncountedIn(todo[t]) = {} /\ DoomedIn(todo[t]) = {} /\ Own(t) = {t}
  BY BegunIs
<1>2. /\ \A q \in Pointer!Pointers : q # t => p'[q] = p[q]
      /\ \/ p'[t] = NULL
         \/ t \in UncountedIn(s) /\ p'[t] \in Objects /\ life[p'[t]] = "unborn"
  BY <1>1, PointerNames DEF Creates, PointerTypes, Pointer!TypeOK
<1>3. \A c \in Objects : c # NULL
  BY PointerNames
<1>4. \A c \in Objects : life'[c] = life[c]
        \/ (life[c] = "unborn" /\ life'[c] = "alive" /\ IsNew(t, c)')
  <2> TAKE c \in Objects
  <2>1. CASE life' = life
    BY <2>1
  <2>2. CASE /\ o \in Objects /\ life[o] = "unborn"
             /\ p' = [p EXCEPT ![t] = o] /\ life' = [life EXCEPT ![o] = "alive"]
             /\ AssigningNew(s, t)
    <3>1. p'[t] = o
      BY <2>2, PointerNames DEF PointerTypes, Pointer!TypeOK
    <3>2. IsNew(t, o)'
      BY <1>1, <2>2, <3>1 DEF IsNew
    <3>3. life'[c] = IF c = o THEN "alive" ELSE life[c]
      BY <2>2 DEF PointerTypes, Pointer!TypeOK
    <3> QED
      BY <2>2, <3>2, <3>3
  <2> QED
    BY <2>1, <2>2 DEF Creates
<1>5. \A c \in Objects : IsNew(t, c)' => life[c] = "unborn" /\ life'[c] = "alive"
  <2> SUFFICES ASSUME NEW c \in Objects, IsNew(t, c)'
               PROVE  life[c] = "unborn" /\ life'[c] = "alive"
    OBVIOUS
  <2>1. AssigningNew(s, t) /\ p'[t] = c
    BY <1>1 DEF IsNew
  <2>2. /\ o \in Objects /\ life[o] = "unborn"
        /\ p' = [p EXCEPT ![t] = o] /\ life' = [life EXCEPT ![o] = "alive"]
    BY <2>1 DEF Creates
  <2>3. p'[t] = o /\ life'[o] = "alive"
    BY <2>2, PointerNames DEF PointerTypes, Pointer!TypeOK
  <2> QED
    BY <2>1, <2>2, <2>3
<1>6. \A u \in PointerThreads, c \in Objects : u # t => (IsNew(u, c)' <=> IsNew(u, c))
  <2> SUFFICES ASSUME NEW u \in PointerThreads, NEW c \in Objects, u # t
               PROVE  IsNew(u, c)' <=> IsNew(u, c)
    OBVIOUS
  <2>1. p'[u] = p[u] /\ todo'[u] = todo[u]
    BY <1>1, <1>2, PointerNames
  <2> QED
    BY <2>1 DEF IsNew
<1>7. \A c \in Objects : ~IsNew(t, c)
  BY <1>1, <1>3 DEF IsNew
<1>8. \A c \in Objects, q \in Pointer!Pointers : p[q] = c => life[c] # "unborn"
  BY <1>3 DEF PointerTypes
<1>9. \A c \in Objects : Pointer!References(c)' = Pointer!References(c)
  <2> SUFFICES ASSUME NEW c \in Objects, NEW q \in Pointer!Pointers
               PROVE  q \in Pointer!References(c)' <=> q \in Pointer!References(c)
    BY DEF Pointer!References
  <2>1. q \in Pointer!References(c) <=>
          /\ p[q] = c
          /\ \A u \in PointerThreads : q \notin UncountedIn(todo[u])
    BY ReferenceIs
  <2>2. q \in Pointer!References(c)' <=>
          /\ p'[q] = c
          /\ \A u \in PointerThreads : q \notin UncountedIn(todo'[u])
    <3>1. \A u \in PointerThreads : Pointer!Uncounted(u)' = UncountedIn(todo'[u])
      BY DEF Pointer!Uncounted, UncountedIn
    <3> QED
      BY <3>1 DEF Pointer!References
  <2>3. \A u \in PointerThreads :
          UncountedIn(todo'[u]) = IF u = t THEN UncountedIn(s) ELSE UncountedIn(todo[u])
    BY <1>1
  <2>4. CASE q = t
    BY <1>1, <1>2, <1>3, <2>1, <2>2, <2>3, <2>4
  <2>5. CASE q # t
    BY <1>1, <1>2, <1>3, <2>1, <2>2, <2>3, <2>5
  <2> QED
    BY <2>4, <2>5
<1>10. \A u \in PointerThreads : DoomedIn(todo'[u]) = DoomedIn(todo[u])
  BY <1>1
<1>11. ASSUME NEW c \in Objects PROVE CountIsRight(c)'
  <2>1. CountIsRight(c)
    BY DEF InOrder
  <2>2. CASE life[c] = "unborn"
    <3>1. Pointer!References(c)' = Pointer!References(c) /\ crefs'[c] = crefs[c]
      BY <1>9
    <3>2. life'[c] \in {"unborn", "alive"} /\ (life'[c] = "alive" => IsNew(t, c)')
      BY <1>4, <2>2
    <3>3. life[c] # "deleted"
      BY <2>2
    <3> QED
      BY <2>1, <3>1, <3>2, <3>3 DEF CountIsRight
  <2>3. CASE life[c] # "unborn"
    <3>1. /\ Pointer!References(c)' = Pointer!References(c) /\ crefs'[c] = crefs[c]
          /\ life'[c] = life[c]
      BY <1>4, <1>9, <2>3
    <3>2. ASSUME NEW u \in PointerThreads, c \in DoomedIn(todo[u]) \/ IsNew(u, c)
          PROVE  c \in DoomedIn(todo'[u]) \/ IsNew(u, c)'
      BY <1>6, <1>7, <1>10, <3>2
    <3> QED
      BY <2>1, <3>1, <3>2 DEF CountIsRight
  <2> QED
    BY <2>2, <2>3
<1>12. ASSUME NEW u \in PointerThreads, NEW c \in Objects PROVE NoReference(u, c)'
  <2>1. NoReference(u, c)
    BY DEF InOrder
  <2>2. ASSUME c \in DoomedIn(todo'[u])
        PROVE  life'[c] = "alive" /\ Pointer!References(c)' = {}
    <3>1. life[c] = "alive" /\ Pointer!References(c) = {}
      BY <1>10, <2>1, <2>2 DEF NoReference
    <3> QED
      BY <1>4, <1>9, <3>1
  <2>3. ASSUME IsNew(u, c)'
        PROVE  /\ life'[c] = "alive"
               /\ \A q \in Pointer!Pointers : p'[q] = c => q \in UncountedIn(todo'[u])
               /\ \A w \in PointerThreads : c \notin DoomedIn(todo'[w])
    <3>1. CASE u = t
      <4>1. life[c] = "unborn" /\ life'[c] = "alive"
        BY <1>5, <2>3, <3>1
      <4>2. \A w \in PointerThreads : c \notin DoomedIn(todo'[w])
        BY <1>10, <4>1 DEF InOrder, NoReference
      <4>3. \A q \in Pointer!Pointers : p'[q] = c => q = t
        BY <1>2, <1>8, <4>1
      <4>4. p'[t] = c => t \in UncountedIn(s)
        BY <1>2, <1>3
      <4> QED
        BY <1>1, <3>1, <4>1, <4>2, <4>3, <4>4
    <3>2. CASE u # t
      <4>1. IsNew(u, c) /\ todo'[u] = todo[u]
        BY <1>1, <1>6, <2>3, <3>2
      <4>2. life[c] = "alive" /\ life'[c] = "alive"
        BY <1>4, <2>1, <4>1 DEF NoReference
      <4>3. p'[t] # c
        BY <1>2, <1>3, <4>2
      <4>4. \A q \in Pointer!Pointers : p'[q] = c => p[q] = c
        BY <1>2, <4>3
      <4> QED
        BY <1>10, <2>1, <4>1, <4>2, <4>4 DEF NoReference
    <3> QED
      BY <3>1, <3>2
  <2> QED
    BY <2>2, <2>3 DEF NoReference
<1>13. \A u \in PointerThreads : InCall(u)'
  <2> SUFFICES ASSUME NEW u \in PointerThreads, u # t PROVE InCall(u)'
    OBVIOUS
  <2>1. \A q \in Pointer!Pointers : q \notin Own(t) => p'[q] = p[q]
    BY <1>1, <1>2
  <2> QED
    BY <1>1, <2>1, OthersStay
<1>14. Apart'
  <2> SUFFICES ASSUME NEW u \in PointerThreads, NEW w \in PointerThreads, u # w
               PROVE  /\ writes'[u] \cap (reads'[w] \cup writes'[w]) = {}
                      /\ DoomedIn(todo'[u]) \cap DoomedIn(todo'[w]) = {}
    BY DEF Apart
  <2>1. DoomedIn(todo'[u]) \cap DoomedIn(todo'[w]) = {}
    BY <1>10 DEF InOrder, Apart
  <2>2. CASE u # t /\ w # t
    BY <1>1, <2>1, <2>2 DEF InOrder, Apart
  <2>3. CASE u = t
    BY <1>1, <2>1, <2>3
  <2>4. CASE w = t
    BY <1>1, <2>1, <2>4
  <2> QED
    BY <2>2, <2>3, <2>4
<1> QED
  BY <1>1, <1>11, <1>12, <1>13, <1>14 DEF InOrder

\* The pointer named through a variable.
LEMMA NamedIs ==
  ASSUME PointerTypes, NEW v \in Variables, NEW x, x \in Pointer!Named(v)
  PROVE  /\ x \in Variables \cup Objects
         /\ x = v \/ (x \in Objects /\ p[v] = x /\ x # v)
<1>1. p[v] \in Objects \cup {NULL}
  BY PointerNames DEF PointerTypes, Pointer!TypeOK
<1>2. x = v \/ (p[v] # NULL /\ x = p[v])
  BY DEF Pointer!Named
<1> QED
  BY <1>1, <1>2, PointerNames

\* A sequence of a length is one of steps.
LEMMA StepsThere ==
  ASSUME NEW s \in Seq(PointerOps), NEW k \in 1 .. 8, Len(s) = k
  PROVE  s # <<>>
<1>1. k # 0
  OBVIOUS
<1> QED
  BY <1>1, NotEmpty

\* A variable is constructed.
LEMMA ConstructKeeps ==
  ASSUME PointerTypes, InOrder, NEW t \in PointerThreads, NEW v \in Variables,
         NEW w \in Variables, NEW y \in Variables \cup Objects,
         Pointer!Construct(t, v, w, y), "raced" \notin mishaps'
  PROVE  InOrder'
<1> DEFINE s == Pointer!Copying(v, y)
           rs == {w, y}
<1>1. t \in Pointer!Pointers /\ v \in Pointer!Pointers /\ y \in Pointer!Pointers
  BY PointerNames
<1>2. /\ s \in Seq(PointerOps) /\ Len(s) = 2 /\ Follows(s, 2, ConstructPlan(v, y))
  BY <1>1, PlanBegins
<1>3. /\ p[v] = NULL /\ y \in Pointer!Named(w)
      /\ Pointer!Call(t, v, rs, s) /\ p' = p /\ crefs' = crefs /\ life' = life
  BY DEF Pointer!Construct
<1> HIDE DEF s, rs
<1>4. s # <<>>
  BY <1>2, StepsThere
<1>5. Begins(t, v, rs, s)
  BY <1>2, <1>3, <1>4 DEF Begins, rs
<1>6. /\ todo[t] = <<>> /\ p[t] = NULL
      /\ todo'[t] = s /\ reads'[t] = rs /\ writes'[t] = {v}
  BY <1>5, BegunIs
<1>7. y \in Variables \cup Objects /\ (y = w \/ (y \in Objects /\ p[w] = y))
  BY <1>3, NamedIs
<1>8. (y = v /\ p[v] = NULL) \/ Reached(rs \ {v}, y)
  <2>1. CASE y = v
    BY <1>3, <2>1
  <2>2. CASE y # v /\ y = w
    BY <2>2 DEF Reached, rs
  <2>3. CASE y # v /\ y \in Objects /\ p[w] = y
    <3>1. w # v
      BY <1>3, <2>3, PointerNames
    <3>2. w \in (rs \ {v}) \cap Variables /\ y \in rs \ {v}
      BY <2>3, <3>1 DEF rs
    <3> QED
      BY <2>3, <3>2 DEF Reached
  <2> QED
    BY <1>7, <2>1, <2>2, <2>3
<1>9. InCall(t)'
  <2>1. PICK k \in 1 .. 8 : k = 2 /\ k # 1
    OBVIOUS
  <2>2. ((y = v /\ p[v] = NULL) \/ Reached(rs \ {v}, y))'
    BY <1>3, <1>8 DEF Reached, rs
  <2>3. Constructs(t, v, k)'
    BY <1>2, <1>3, <1>6, <1>7, <2>1, <2>2 DEF Constructs
  <2> QED
    BY <1>6, <2>3 DEF InCall
<1>10. ~AssigningNew(s, t)
  BY <1>2, NewSteps
<1>11. Creates(t, s, v)
  BY <1>3, <1>10 DEF Creates
<1>12. DoomedIn(s) = {}
  BY <1>2, NoneDoomed
<1>13. \A q \in UncountedIn(s) : p[q] = NULL
  <2>1. OnlyAssigns(ConstructPlan(v, y), t, v) /\ Len(ConstructPlan(v, y)) = 2
    BY PlanAssigns, PlanLengths
  <2>2. PICK M : M = {t, v}
    OBVIOUS
  <2>3. /\ \A i \in 1 .. 2 : ConstructPlan(v, y)[i][1] \in {"set", "upcount"} =>
             ConstructPlan(v, y)[i][2] \in M
        /\ \A i \in 1 .. 2 : ConstructPlan(v, y)[i][1] # "delete"
    BY <2>1, <2>2 DEF OnlyAssigns
  <2>4. UncountedIn(s) \subseteq M \cup DoomedIn(s)
    BY <1>2, <2>1, <2>3, PlanUncounted
  <2> QED
    BY <1>3, <1>6, <1>12, <2>2, <2>4
<1> QED
  BY <1>3, <1>5, <1>9, <1>11, <1>12, <1>13, BegunKeeps

\* What holds x is used until the call ends.
LEMMA HeldAfter ==
  ASSUME PointerTypes, NEW t \in PointerThreads, NEW v \in Variables, NEW x,
         x \in Pointer!Named(v), NEW rs, {v} \ {x} \subseteq rs, reads'[t] = rs,
         p'[v] = p[v]
  PROVE  HeldBy(t, x)'
BY NamedIs DEF HeldBy

\* A plan uncounts only the temporary, when it gives up what it assigns first.
LEMMA OnlyTemporary ==
  ASSUME NEW s \in Seq(PointerOps), NEW k \in 1 .. 8, NEW t, NEW x, NEW y, NEW plan,
         \/ plan = CopyPlan(t, x, y) \/ plan = NewPlan(t, x)
         \/ plan = ReleasePlan(x),
         Follows(s, k, plan), Len(s) = k, x \notin UncountedIn(s)
  PROVE  UncountedIn(s) \subseteq {t}
<1>1. OnlyAssigns(plan, t, x) /\ Len(plan) \in Nat
  BY PlanAssigns, PlanLengths
<1>2. \A i \in 1 .. k : i \in 1 .. Len(plan)
  BY DEF Follows
<1>3. PICK M : M = {t, x}
  OBVIOUS
<1>4. /\ \A i \in 1 .. k : plan[i][1] \in {"set", "upcount"} => plan[i][2] \in M
      /\ \A i \in 1 .. k : plan[i][1] # "delete"
  BY <1>1, <1>2, <1>3 DEF OnlyAssigns
<1>5. UncountedIn(s) \subseteq M \cup DoomedIn(s)
  BY <1>1, <1>4, PlanUncounted
<1>6. DoomedIn(s) = {}
  BY NoneDoomed
<1> QED
  BY <1>3, <1>5, <1>6

\* A pointer is assigned another's object.
LEMMA AssignKeeps ==
  ASSUME PointerTypes, InOrder, NEW t \in PointerThreads, NEW v \in Variables,
         NEW w \in Variables, NEW x, NEW y,
         Pointer!Assign(t, v, x, w, y), "raced" \notin mishaps'
  PROVE  InOrder'
<1> DEFINE s == Pointer!Copying(t, y) \o Pointer!Assigning(x, t) \o Pointer!Releasing(t)
           rs == {v, w, y} \ {x}
<1>1. /\ x \in Pointer!Named(v) /\ y \in Pointer!Named(w)
      /\ Pointer!Call(t, x, rs, s) /\ p' = p /\ crefs' = crefs /\ life' = life
  BY DEF Pointer!Assign
<1>2. /\ x \in Variables \cup Objects
      /\ y \in Variables \cup Objects /\ (y = w \/ (y \in Objects /\ p[w] = y))
  BY <1>1, NamedIs
<1>3. t \in Pointer!Pointers /\ x \in Pointer!Pointers /\ y \in Pointer!Pointers /\ t # x
  BY <1>2, PointerNames
<1>4. s \in Seq(PointerOps) /\ Len(s) = 8 /\ Follows(s, 8, CopyPlan(t, x, y))
  BY <1>3, PlanBegins
<1> HIDE DEF s, rs
<1>5. PICK k \in 1 .. 8 : k = 8 /\ k >= 7 /\ k # 7 /\ k # 3 /\ k >= 5 /\ k \in Nat
  OBVIOUS
<1>6. Len(s) = k /\ Follows(s, k, CopyPlan(t, x, y))
  BY <1>4, <1>5
<1>7. s # <<>>
  BY <1>4, <1>6, StepsThere
<1>8. Begins(t, x, rs, s)
  BY <1>1, <1>2, <1>4, <1>7 DEF Begins, rs
<1>9. /\ todo[t] = <<>> /\ p[t] = NULL
      /\ todo'[t] = s /\ reads'[t] = rs /\ writes'[t] = {x}
  BY <1>8, BegunIs
<1>10. InCall(t)'
  <2>1. Reached(reads[t] \cup writes[t], y)'
    BY <1>1, <1>2, <1>9 DEF Reached, rs
  <2>2. Copies(t, x, k)'
    BY <1>2, <1>5, <1>6, <1>9, <2>1 DEF Copies
  <2>3. HeldBy(t, x)'
    BY <1>1, <1>9, HeldAfter DEF rs
  <2>4. x \notin reads'[t]
    BY <1>9 DEF rs
  <2> QED
    BY <1>2, <1>9, <2>2, <2>3, <2>4 DEF InCall
<1>11. ~AssigningNew(s, t)
  BY <1>2, <1>4, <1>5, <1>6, NewSteps
<1>12. Creates(t, s, x)
  BY <1>1, <1>11 DEF Creates
<1>13. DoomedIn(s) = {}
  BY <1>4, <1>6, NoneDoomed
<1>14. \A q \in UncountedIn(s) : p[q] = NULL
  <2>1. x \notin UncountedIn(s)
    BY <1>3, <1>4, <1>5, <1>6, CopyLeaves
  <2>2. UncountedIn(s) \subseteq {t}
    BY <1>4, <1>6, <2>1, OnlyTemporary
  <2> QED
    BY <1>9, <2>2
<1> QED
  BY <1>1, <1>8, <1>10, <1>12, <1>13, <1>14, BegunKeeps

\* A pointer is assigned a new object.
LEMMA AssignNewKeeps ==
  ASSUME PointerTypes, InOrder, NEW t \in PointerThreads, NEW v \in Variables,
         NEW x, NEW o \in Objects,
         Pointer!AssignNew(t, v, x, o), "raced" \notin mishaps'
  PROVE  InOrder'
<1> DEFINE s == Pointer!Assigning(x, t) \o Pointer!Forgetting(t)
           rs == {v} \ {x}
<1>1. /\ x \in Pointer!Named(v) /\ life[o] = "unborn"
      /\ Pointer!Call(t, x, rs, s) /\ p' = [p EXCEPT ![t] = o] /\ crefs' = crefs
      /\ life' = [life EXCEPT ![o] = "alive"]
  BY DEF Pointer!AssignNew
<1>2. x \in Variables \cup Objects
  BY <1>1, NamedIs
<1>3. t \in Pointer!Pointers /\ x \in Pointer!Pointers /\ t # x /\ t # v
  BY <1>2, PointerNames
<1>4. s \in Seq(PointerOps) /\ Len(s) = 5 /\ Follows(s, 5, NewPlan(t, x))
  BY <1>3, PlanBegins
<1> HIDE DEF s, rs
<1>5. PICK k \in 1 .. 8 : k = 5 /\ k >= 2 /\ k # 2 /\ k >= 4 /\ k \in Nat
  OBVIOUS
<1>6. Len(s) = k /\ Follows(s, k, NewPlan(t, x))
  BY <1>4, <1>5
<1>7. s # <<>>
  BY <1>4, <1>6, StepsThere
<1>8. Begins(t, x, rs, s)
  BY <1>1, <1>2, <1>4, <1>7 DEF Begins, rs
<1>9. /\ todo[t] = <<>> /\ p[t] = NULL
      /\ todo'[t] = s /\ reads'[t] = rs /\ writes'[t] = {x}
  BY <1>8, BegunIs
<1>10. InCall(t)'
  <2>1. p'[t] = o /\ p'[v] = p[v]
    BY <1>1, <1>3, PointerNames DEF PointerTypes, Pointer!TypeOK
  <2>2. AssignsNew(t, x, k)'
    BY <1>5, <1>6, <1>9, <2>1 DEF AssignsNew
  <2>3. HeldBy(t, x)'
    BY <1>1, <1>9, <2>1, HeldAfter DEF rs
  <2>4. x \notin reads'[t]
    BY <1>9 DEF rs
  <2> QED
    BY <1>2, <1>9, <2>2, <2>3, <2>4 DEF InCall
<1>11. AssigningNew(s, t)
  BY <1>2, <1>4, <1>5, <1>6, NewSteps
<1>12. x \notin UncountedIn(s) /\ t \in UncountedIn(s)
  BY <1>3, <1>4, <1>5, <1>6, NewLeaves
<1>13. Creates(t, s, o)
  BY <1>1, <1>11, <1>12 DEF Creates
<1>14. DoomedIn(s) = {}
  BY <1>4, <1>6, NoneDoomed
<1>15. \A q \in UncountedIn(s) : p[q] = NULL
  <2>1. UncountedIn(s) \subseteq {t}
    BY <1>4, <1>6, <1>12, OnlyTemporary
  <2> QED
    BY <1>9, <2>1
<1> QED
  BY <1>1, <1>8, <1>10, <1>13, <1>14, <1>15, BegunKeeps

\* A pointer is given up.
LEMMA ReleaseKeeps ==
  ASSUME PointerTypes, InOrder, NEW t \in PointerThreads, NEW v \in Variables, NEW x,
         Pointer!Release(t, v, x), "raced" \notin mishaps'
  PROVE  InOrder'
<1> DEFINE s == Pointer!Releasing(x)
           rs == {v} \ {x}
<1>1. /\ x \in Pointer!Named(v)
      /\ Pointer!Call(t, x, rs, s) /\ p' = p /\ crefs' = crefs /\ life' = life
  BY DEF Pointer!Release
<1>2. x \in Variables \cup Objects
  BY <1>1, NamedIs
<1>3. t \in Pointer!Pointers /\ x \in Pointer!Pointers /\ t # x
  BY <1>2, PointerNames
<1>4. s \in Seq(PointerOps) /\ Len(s) = 2 /\ Follows(s, 2, ReleasePlan(x))
  BY <1>3, PlanBegins
<1>15. s[1] = <<"downcount", x>>
  BY DEF Pointer!Releasing
<1> HIDE DEF s, rs
<1>5. PICK k \in 1 .. 8 : k = 2 /\ k # 1 /\ k \in Nat
  OBVIOUS
<1>6. Len(s) = k /\ Follows(s, k, ReleasePlan(x))
  BY <1>4, <1>5
<1>7. s # <<>>
  BY <1>4, <1>6, StepsThere
<1>8. Begins(t, x, rs, s)
  BY <1>1, <1>2, <1>4, <1>7 DEF Begins, rs
<1>9. /\ todo[t] = <<>> /\ p[t] = NULL
      /\ todo'[t] = s /\ reads'[t] = rs /\ writes'[t] = {x}
  BY <1>8, BegunIs
<1>10. InCall(t)'
  <2>2. Releases(t, x, k)'
    BY <1>1, <1>5, <1>6, <1>9 DEF Releases
  <2>3. HeldBy(t, x)'
    BY <1>1, <1>9, HeldAfter DEF rs
  <2>4. x \notin reads'[t]
    BY <1>9 DEF rs
  <2> QED
    BY <1>2, <1>9, <2>2, <2>3, <2>4 DEF InCall
<1>11. ~AssigningNew(s, t)
  BY <1>2, <1>4, <1>5, <1>6, NewSteps
<1>12. Creates(t, s, x)
  BY <1>1, <1>11 DEF Creates
<1>13. DoomedIn(s) = {}
  BY <1>4, <1>6, NoneDoomed
<1>14. \A q \in UncountedIn(s) : p[q] = NULL
  <2>1. x \notin UncountedIn(s)
    <3>1. s[1][1] = "downcount"
      BY <1>15
    <3> QED
      BY <1>3, <1>4, <1>7, <1>15, <3>1, UncountedRest
  <2>2. UncountedIn(s) \subseteq {t}
    BY <1>4, <1>6, <2>1, OnlyTemporary
  <2> QED
    BY <1>9, <2>2
<1> QED
  BY <1>1, <1>8, <1>10, <1>12, <1>13, <1>14, BegunKeeps

-----------------------------------------------------------------------------
\* The counted pointers: types, race or not.

\* What a step of a call has to leave.
LEMMA StepTypes ==
  ASSUME PointerTypes, NEW t \in PointerThreads, NEW r \in Seq(PointerOps),
         Pointer!GoesOn(t, r),
         p' \in [Pointer!Pointers -> Objects \cup {NULL}],
         crefs' \in [Objects -> Int],
         life' \in [Objects -> {"unborn", "alive", "deleted"}],
         \A x \in Pointer!Pointers : p'[x] # NULL => life'[p'[x]] # "unborn"
  PROVE  PointerTypes'
<1>1. /\ calls' = calls /\ mishaps' = mishaps
      /\ todo' \in [PointerThreads -> Seq(PointerOps)]
      /\ reads' \in [PointerThreads -> SUBSET (Variables \cup Objects)]
      /\ writes' \in [PointerThreads -> SUBSET (Variables \cup Objects)]
  BY GoneOn
<1> QED
  BY <1>1 DEF PointerTypes, Pointer!TypeOK

\* What a call has to leave.
LEMMA CallTypes ==
  ASSUME PointerTypes, NEW t \in PointerThreads, NEW x \in Variables \cup Objects,
         NEW rs \in SUBSET (Variables \cup Objects), NEW s \in Seq(PointerOps),
         Pointer!Call(t, x, rs, s), crefs' = crefs,
         p' \in [Pointer!Pointers -> Objects \cup {NULL}],
         life' \in [Objects -> {"unborn", "alive", "deleted"}],
         \A q \in Pointer!Pointers : p'[q] # NULL => life'[p'[q]] # "unborn"
  PROVE  PointerTypes'
<1>1. /\ todo' \in [PointerThreads -> Seq(PointerOps)]
      /\ reads' \in [PointerThreads -> SUBSET (Variables \cup Objects)]
      /\ writes' \in [PointerThreads -> SUBSET (Variables \cup Objects)]
  BY DEF Pointer!Call, PointerTypes, Pointer!TypeOK
<1>2. calls' \in 0 .. MaxPointerCalls
  BY PointerNames DEF Pointer!Call, PointerTypes, Pointer!TypeOK
<1>3. mishaps' \subseteq {"raced", "freed"}
  BY DEF Pointer!Call, PointerTypes, Pointer!TypeOK
<1> QED
  BY <1>1, <1>2, <1>3 DEF PointerTypes, Pointer!TypeOK

\* The types that a step or a call starts from.
LEMMA PointerTypesAre ==
  ASSUME PointerTypes
  PROVE  /\ p \in [Pointer!Pointers -> Objects \cup {NULL}]
         /\ crefs \in [Objects -> Int]
         /\ life \in [Objects -> {"unborn", "alive", "deleted"}]
         /\ \A x \in Pointer!Pointers : p[x] # NULL => life[p[x]] # "unborn"
         /\ todo \in [PointerThreads -> Seq(PointerOps)]
BY DEF PointerTypes, Pointer!TypeOK

\* The steps of the calls.
LEMMA StepsKeepTypes ==
  ASSUME PointerTypes, NEW t \in PointerThreads,
         \/ Pointer!Set(t) \/ Pointer!Compare(t) \/ Pointer!upcount(t)
         \/ Pointer!downcount(t) \/ Pointer!Delete(t)
  PROVE  PointerTypes'
<1> DEFINE s == todo[t]
           w == Tail(s)
           z == s[1][2]
           y == s[1][3]
<1>1. s # <<>> /\ s \in Seq(PointerOps)
  BY PointerTypesAre DEF Pointer!Set, Pointer!Compare, Pointer!upcount, Pointer!downcount,
       Pointer!Delete, Pointer!Does
<1>2. w \in Seq(PointerOps)
  BY <1>1
<1>3. z \in Pointer!Pointers
  BY <1>1, OpsAre
<1>4. /\ p \in [Pointer!Pointers -> Objects \cup {NULL}]
      /\ crefs \in [Objects -> Int]
      /\ life \in [Objects -> {"unborn", "alive", "deleted"}]
      /\ \A x \in Pointer!Pointers : p[x] # NULL => life[p[x]] # "unborn"
  BY PointerTypesAre
<1>5. CASE Pointer!Set(t)
  <2>1. y \in Pointer!Pointers \cup {NULL}
    BY <1>1, <1>5, OpsAre DEF Pointer!Set, Pointer!Does
  <2>2. /\ p' = [p EXCEPT ![z] = IF y = NULL THEN NULL ELSE p[y]]
        /\ Pointer!GoesOn(t, w) /\ crefs' = crefs /\ life' = life
    BY <1>5 DEF Pointer!Set
  <2> HIDE DEF w, z, y
  <2>3. /\ p' \in [Pointer!Pointers -> Objects \cup {NULL}]
        /\ \A x \in Pointer!Pointers : p'[x] # NULL => life'[p'[x]] # "unborn"
    BY <1>3, <1>4, <2>1, <2>2
  <2> QED
    BY <1>2, <1>4, <2>2, <2>3, StepTypes
<1>6. CASE Pointer!Compare(t)
  <2> DEFINE m == IF p[z] = p[y] THEN 5 ELSE 2
             r == SubSeq(s, m, Len(s))
  <2>1. Pointer!GoesOn(t, r) /\ p' = p /\ crefs' = crefs /\ life' = life
    BY <1>6 DEF Pointer!Compare
  <2>2. r \in Seq(PointerOps)
    <3>1. m \in 1 .. 5 /\ Len(s) \in Nat
      BY <1>1
    <3> HIDE DEF m, s
    <3>2. \A i \in m .. Len(s) : s[i] \in PointerOps
      BY <1>1, <3>1
    <3>3. m \in Int /\ Len(s) \in Int
      BY <3>1
    <3> QED
      BY <3>2, <3>3, SubSeqProperties
  <2> HIDE DEF r
  <2> QED
    BY <1>4, <2>1, <2>2, StepTypes
<1>7. CASE Pointer!upcount(t)
  <2>1. /\ crefs' = IF p[z] = NULL THEN crefs ELSE [crefs EXCEPT ![p[z]] = @ + 1]
        /\ Pointer!GoesOn(t, w) /\ p' = p /\ life' = life
    BY <1>7 DEF Pointer!upcount
  <2> HIDE DEF w, z
  <2>2. crefs' \in [Objects -> Int]
    BY <1>3, <1>4, <2>1
  <2> QED
    BY <1>2, <1>4, <2>1, <2>2, StepTypes
<1>8. CASE Pointer!downcount(t)
  <2>1. p' = p /\ life' = life
    BY <1>8 DEF Pointer!downcount
  <2>2. CASE p[z] = NULL
    <3>1. Pointer!GoesOn(t, w) /\ crefs' = crefs
      BY <1>8, <2>2 DEF Pointer!downcount
    <3> HIDE DEF w
    <3> QED
      BY <1>2, <1>4, <2>1, <3>1, StepTypes
  <2>3. CASE p[z] # NULL
    <3> DEFINE d == IF crefs[p[z]] = 1
                    THEN << <<"downcount", p[z]>>, <<"delete", p[z]>> >> ELSE <<>>
               r == d \o w
    <3>1. Pointer!GoesOn(t, r) /\ crefs' = [crefs EXCEPT ![p[z]] = @ - 1]
      BY <1>8, <2>3 DEF Pointer!downcount
    <3>2. p[z] \in Objects
      BY <1>3, <1>4, <2>3
    <3>3. d \in Seq(PointerOps)
      <4>1. <<"downcount", p[z]>> \in PointerOps /\ <<"delete", p[z]>> \in PointerOps
        BY <3>2, PointerNames DEF PointerOps
      <4>2. << <<"downcount", p[z]>>, <<"delete", p[z]>> >> \in Seq(PointerOps)
        BY <4>1
      <4>3. <<>> \in Seq(PointerOps)
        OBVIOUS
      <4> QED
        BY <4>2, <4>3
    <3> HIDE DEF d, w, z
    <3>4. r \in Seq(PointerOps)
      BY <1>2, <3>3, ConcatProperties
    <3>5. crefs' \in [Objects -> Int]
      BY <1>4, <3>1, <3>2
    <3>6. /\ p' \in [Pointer!Pointers -> Objects \cup {NULL}]
          /\ life' \in [Objects -> {"unborn", "alive", "deleted"}]
          /\ \A x \in Pointer!Pointers : p'[x] # NULL => life'[p'[x]] # "unborn"
      BY <1>4, <2>1
    <3> HIDE DEF r
    <3> QED
      BY <3>1, <3>4, <3>5, <3>6, StepTypes
  <2> QED
    BY <2>2, <2>3
<1>9. CASE Pointer!Delete(t)
  <2>1. /\ p' = [p EXCEPT ![z] = NULL] /\ life' = [life EXCEPT ![z] = "deleted"]
        /\ crefs' = crefs /\ Pointer!GoesOn(t, w)
    BY <1>9 DEF Pointer!Delete
  <2> HIDE DEF w, z
  <2>2. /\ p' \in [Pointer!Pointers -> Objects \cup {NULL}]
        /\ life' \in [Objects -> {"unborn", "alive", "deleted"}]
    BY <1>3, <1>4, <2>1
  <2>3. \A x \in Pointer!Pointers : p'[x] # NULL => life'[p'[x]] # "unborn"
    <3> TAKE x \in Pointer!Pointers
    <3> SUFFICES ASSUME p'[x] # NULL PROVE life'[p'[x]] # "unborn"
      OBVIOUS
    <3>1. p'[x] = p[x] /\ p[x] \in Objects
      BY <1>3, <1>4, <2>1
    <3> QED
      BY <1>4, <2>1, <3>1
  <2> QED
    BY <1>2, <1>4, <2>1, <2>2, <2>3, StepTypes
<1> QED
  BY <1>5, <1>6, <1>7, <1>8, <1>9

\* The calls.
LEMMA CallsKeepTypes ==
  ASSUME PointerTypes, NEW t \in PointerThreads, NEW v \in Variables, NEW w \in Variables,
         NEW x \in Variables \cup Objects, NEW y \in Variables \cup Objects,
         \/ Pointer!Construct(t, v, w, y)
         \/ Pointer!Assign(t, v, x, w, y)
         \/ Pointer!Release(t, v, x)
         \/ \E o \in Objects : Pointer!AssignNew(t, v, x, o)
  PROVE  PointerTypes'
<1>1. /\ p \in [Pointer!Pointers -> Objects \cup {NULL}]
      /\ life \in [Objects -> {"unborn", "alive", "deleted"}]
      /\ \A q \in Pointer!Pointers : p[q] # NULL => life[p[q]] # "unborn"
  BY PointerTypesAre
<1>2. /\ t \in Pointer!Pointers /\ x \in Pointer!Pointers /\ y \in Pointer!Pointers
      /\ v \in Pointer!Pointers
  BY PointerNames
<1>3. CASE Pointer!Construct(t, v, w, y)
  <2> DEFINE s == Pointer!Copying(v, y)
  <2>1. s \in Seq(PointerOps)
    BY <1>2, PlanBegins
  <2>2. /\ Pointer!Call(t, v, {w, y}, s) /\ p' = p /\ crefs' = crefs /\ life' = life
    BY <1>3 DEF Pointer!Construct
  <2> HIDE DEF s
  <2>3. {w, y} \in SUBSET (Variables \cup Objects) /\ v \in Variables \cup Objects
    OBVIOUS
  <2> QED
    BY <1>1, <2>1, <2>2, <2>3, CallTypes
<1>4. CASE Pointer!Assign(t, v, x, w, y)
  <2> DEFINE s == Pointer!Copying(t, y) \o Pointer!Assigning(x, t) \o Pointer!Releasing(t)
  <2>1. s \in Seq(PointerOps)
    BY <1>2, PlanBegins
  <2>2. Pointer!Call(t, x, {v, w, y} \ {x}, s) /\ p' = p /\ crefs' = crefs /\ life' = life
    BY <1>4 DEF Pointer!Assign
  <2> HIDE DEF s
  <2>3. {v, w, y} \ {x} \in SUBSET (Variables \cup Objects)
    OBVIOUS
  <2> QED
    BY <1>1, <2>1, <2>2, <2>3, CallTypes
<1>5. CASE Pointer!Release(t, v, x)
  <2> DEFINE s == Pointer!Releasing(x)
  <2>1. s \in Seq(PointerOps)
    BY <1>2, PlanBegins
  <2>2. Pointer!Call(t, x, {v} \ {x}, s) /\ p' = p /\ crefs' = crefs /\ life' = life
    BY <1>5 DEF Pointer!Release
  <2> HIDE DEF s
  <2>3. {v} \ {x} \in SUBSET (Variables \cup Objects)
    OBVIOUS
  <2> QED
    BY <1>1, <2>1, <2>2, <2>3, CallTypes
<1>6. ASSUME NEW o \in Objects, Pointer!AssignNew(t, v, x, o) PROVE PointerTypes'
  <2> DEFINE s == Pointer!Assigning(x, t) \o Pointer!Forgetting(t)
  <2>1. s \in Seq(PointerOps)
    BY <1>2, PlanBegins
  <2>2. /\ Pointer!Call(t, x, {v} \ {x}, s)
        /\ life' = [life EXCEPT ![o] = "alive"] /\ p' = [p EXCEPT ![t] = o]
        /\ crefs' = crefs
    BY <1>6 DEF Pointer!AssignNew
  <2> HIDE DEF s
  <2>3. {v} \ {x} \in SUBSET (Variables \cup Objects)
    OBVIOUS
  <2>4. /\ p' \in [Pointer!Pointers -> Objects \cup {NULL}]
        /\ life' \in [Objects -> {"unborn", "alive", "deleted"}]
    BY <1>1, <1>2, <2>2
  <2>5. \A q \in Pointer!Pointers : p'[q] # NULL => life'[p'[q]] # "unborn"
    <3> TAKE q \in Pointer!Pointers
    <3> SUFFICES ASSUME p'[q] # NULL PROVE life'[p'[q]] # "unborn"
      OBVIOUS
    <3>1. p'[q] \in Objects
      BY <2>4
    <3>2. life'[p'[q]] = IF p'[q] = o THEN "alive" ELSE life[p'[q]]
      BY <1>1, <2>2, <3>1
    <3>3. q # t => p'[q] = p[q]
      BY <1>1, <2>2
    <3>4. q = t => p'[q] = o
      BY <1>1, <1>2, <2>2
    <3> QED
      BY <1>1, <3>1, <3>2, <3>3, <3>4
  <2> QED
    BY <2>1, <2>2, <2>3, <2>4, <2>5, CallTypes
<1> QED
  BY <1>3, <1>4, <1>5, <1>6

-----------------------------------------------------------------------------
\* The counted pointers: the invariant.

\* The invariant holds at first.
LEMMA PointerInitIInv == PartsInit => PointerIInv
<1> SUFFICES ASSUME Pointer!Init PROVE PointerIInv
  BY DEF PartsInit
<1>1. /\ p = [x \in Pointer!Pointers |-> NULL]
      /\ crefs = [o \in Objects |-> 0]
      /\ life = [o \in Objects |-> "unborn"]
      /\ todo = [t \in PointerThreads |-> <<>>]
      /\ reads = [t \in PointerThreads |-> {}]
      /\ writes = [t \in PointerThreads |-> {}]
      /\ calls = 0
      /\ mishaps = {}
  BY DEF Pointer!Init
<1>2. PointerTypes
  BY <1>1, PointerNames DEF PointerTypes, Pointer!TypeOK
<1>3. \A t \in PointerThreads : todo[t] = <<>> /\ DoomedIn(todo[t]) = {} /\ InCall(t)
  BY <1>1, PointerNames DEF DoomedIn, InCall
<1>4. \A o \in Objects : Pointer!References(o) = {}
  BY <1>1, PointerNames DEF Pointer!References
<1>5. \A t \in PointerThreads, o \in Objects : ~IsNew(t, o)
  BY <1>1, PointerNames DEF IsNew
<1>6. Apart
  BY <1>1, <1>3 DEF Apart
<1>7. \A o \in Objects : CountIsRight(o)
  BY <1>1, <1>4, FS_EmptySet DEF CountIsRight
<1>8. \A t \in PointerThreads, o \in Objects : NoReference(t, o)
  BY <1>3, <1>5 DEF NoReference
<1>9. InOrder
  BY <1>1, <1>3, <1>6, <1>7, <1>8 DEF InOrder
<1> QED
  BY <1>2, <1>9 DEF PointerIInv

\* A step that changes nothing.
LEMMA PointerIdle == PointerIInv /\ UNCHANGED Pointer!vars => PointerIInv'
<1> SUFFICES ASSUME PointerIInv, UNCHANGED Pointer!vars PROVE PointerIInv'
  OBVIOUS
<1>1. /\ p' = p /\ crefs' = crefs /\ life' = life /\ todo' = todo /\ reads' = reads
      /\ writes' = writes /\ calls' = calls /\ mishaps' = mishaps
  BY DEF Pointer!vars
<1>2. PointerTypes'
  BY <1>1 DEF PointerIInv, PointerTypes, Pointer!TypeOK
<1>3. \A o : Pointer!References(o)' = Pointer!References(o)
  BY <1>1 DEF Pointer!References, Pointer!Uncounted
<1>4. ASSUME InOrder PROVE InOrder'
  <2>1. \A t \in PointerThreads : InCall(t)'
    BY <1>1, <1>4
       DEF InOrder, InCall, Constructs, Copies, AssignsNew, Releases, HeldBy, Reached
  <2>2. Apart'
    BY <1>1, <1>4 DEF InOrder, Apart
  <2>3. \A t, o : IsNew(t, o)' <=> IsNew(t, o)
    BY <1>1 DEF IsNew
  <2>4. \A o \in Objects : CountIsRight(o)'
    BY <1>1, <1>3, <1>4, <2>3 DEF InOrder, CountIsRight
  <2>5. \A t \in PointerThreads, o \in Objects : NoReference(t, o)'
    BY <1>1, <1>3, <1>4, <2>3 DEF InOrder, NoReference
  <2> QED
    BY <1>1, <1>4, <2>1, <2>2, <2>4, <2>5 DEF InOrder
<1> QED
  BY <1>1, <1>2, <1>4 DEF PointerIInv

\* The invariant is inductive.
LEMMA PointerInvariant == PointerIInv /\ Pointer!Next => PointerIInv'
<1> SUFFICES ASSUME PointerIInv, NEW t \in PointerThreads,
                    \/ \E v, w \in Variables, x, y \in Variables \cup Objects :
                         \/ Pointer!Construct(t, v, w, y)
                         \/ Pointer!Assign(t, v, x, w, y)
                         \/ Pointer!Release(t, v, x)
                         \/ \E o \in Objects : Pointer!AssignNew(t, v, x, o)
                    \/ Pointer!Set(t) \/ Pointer!Compare(t) \/ Pointer!upcount(t)
                    \/ Pointer!downcount(t) \/ Pointer!Delete(t) \/ Pointer!Fails(t)
             PROVE  PointerIInv'
  BY DEF Pointer!Next
<1>1. PointerTypes /\ ("raced" \notin mishaps => InOrder)
  BY DEF PointerIInv
<1>2. ASSUME NEW v \in Variables, NEW w \in Variables,
             NEW x \in Variables \cup Objects, NEW y \in Variables \cup Objects,
             \/ Pointer!Construct(t, v, w, y)
             \/ Pointer!Assign(t, v, x, w, y)
             \/ Pointer!Release(t, v, x)
             \/ \E o \in Objects : Pointer!AssignNew(t, v, x, o)
      PROVE  PointerIInv'
  <2>1. PointerTypes'
    BY <1>1, <1>2, CallsKeepTypes
  <2>2. mishaps = {}
    BY <1>2 DEF Pointer!Construct, Pointer!Assign, Pointer!Release, Pointer!AssignNew,
         Pointer!Call
  <2>3. InOrder
    BY <1>1, <2>2
  <2>4. ASSUME "raced" \notin mishaps' PROVE InOrder'
    BY <1>1, <1>2, <2>3, <2>4, ConstructKeeps, AssignKeeps, ReleaseKeeps, AssignNewKeeps
  <2> QED
    BY <2>1, <2>4 DEF PointerIInv
<1>3. CASE \/ Pointer!Set(t) \/ Pointer!Compare(t) \/ Pointer!upcount(t)
           \/ Pointer!downcount(t) \/ Pointer!Delete(t)
  <2>1. PointerTypes'
    BY <1>1, <1>3, StepsKeepTypes
  <2>2. mishaps' = mishaps
    <3>1. \A r : Pointer!GoesOn(t, r) => mishaps' = mishaps
      BY DEF Pointer!GoesOn
    <3> HIDE DEF Pointer!GoesOn
    <3>2. CASE Pointer!downcount(t)
      BY <3>1, <3>2 DEF Pointer!downcount
    <3>3. CASE Pointer!Compare(t)
      BY <3>1, <3>3 DEF Pointer!Compare
    <3>4. CASE Pointer!Set(t)
      BY <3>1, <3>4 DEF Pointer!Set
    <3>5. CASE Pointer!upcount(t)
      BY <3>1, <3>5 DEF Pointer!upcount
    <3>6. CASE Pointer!Delete(t)
      BY <3>1, <3>6 DEF Pointer!Delete
    <3> QED
      BY <1>3, <3>2, <3>3, <3>4, <3>5, <3>6
  <2>3. ASSUME InOrder PROVE InOrder'
    BY <1>1, <1>3, <2>3, SetKeeps, CompareKeeps, UpcountKeeps, DowncountKeeps, DeletionKeeps
  <2> QED
    BY <1>1, <2>1, <2>2, <2>3 DEF PointerIInv
<1>4. CASE Pointer!Fails(t)
  <2>1. /\ todo[t] # <<>> /\ Pointer!UsesFreed(todo[t][1])
        /\ mishaps' = mishaps \cup {"freed"}
        /\ p' = p /\ crefs' = crefs /\ life' = life /\ todo' = todo /\ reads' = reads
        /\ writes' = writes /\ calls' = calls
    BY <1>4 DEF Pointer!Fails
  <2>2. PointerTypes'
    BY <1>1, <2>1 DEF PointerTypes, Pointer!TypeOK
  <2>3. ~InOrder
    BY <1>1, <2>1, NothingFreed
  <2>4. "raced" \in mishaps'
    BY <1>1, <2>1, <2>3
  <2> QED
    BY <2>2, <2>4 DEF PointerIInv
<1> QED
  BY <1>2, <1>3, <1>4

\* The invariant of the pointers.
LEMMA PointerInvariance == PartsSpec => []PointerIInv
<1>1. PointerIInv /\ [PartsNext]_allVars => PointerIInv'
  BY PointerSteps, PointerInvariant, PointerIdle
<1> QED
  BY <1>1, PointerInitIInv, PTL DEF PartsSpec

\* Whatever the other threads add and remove, an iteration over the map returns the
\* keys that stay in their order, once each, and misses none; one over a list that
\* holds no instance twice repeats none, and misses none as long as its current
\* instance is in its place.
THEOREM IterationsAreComplete == PartsSpec => []IterationsComplete
<1>1. MapIInv /\ ListIInv => IterationsComplete
  BY MapComplete, ListComplete DEF IterationsComplete
<1> QED
  BY <1>1, MapInvariance, ListInvariance, PTL

\* As long as no pointer is assigned while another thread uses it, every count of
\* SmartPtr and RefCount is the number of counted references, whatever the
\* interleaving; what has none is deleted, what has one is not, and nothing deleted
\* is used.
THEOREM CountsAreTheReferences == PartsSpec => []CountsAreReferences
<1>1. PointerIInv => CountsAreReferences
  <2> SUFFICES ASSUME PointerIInv PROVE Pointer!CountsAreReferences
    BY DEF CountsAreReferences
  <2>1. Pointer!TypeOK
    BY DEF PointerIInv, PointerTypes
  <2>2. ASSUME "raced" \notin mishaps
        PROVE  /\ "freed" \notin mishaps
               /\ \A o \in Objects :
                    /\ life[o] # "deleted" =>
                         crefs[o] = Pointer!Cardinality(Pointer!References(o))
                    /\ life[o] = "alive" /\ Pointer!References(o) = {} =>
                         Pointer!Unreferenced(o)
                    /\ life[o] = "deleted" => Pointer!References(o) = {}
    <3>1. InOrder
      BY <2>2 DEF PointerIInv
    <3>2. mishaps = {}
      BY <3>1 DEF InOrder
    <3> SUFFICES ASSUME NEW o \in Objects
                 PROVE  /\ life[o] # "deleted" =>
                             crefs[o] = Pointer!Cardinality(Pointer!References(o))
                        /\ life[o] = "alive" /\ Pointer!References(o) = {} =>
                             Pointer!Unreferenced(o)
                        /\ life[o] = "deleted" => Pointer!References(o) = {}
      BY <3>2
    <3>3. CountIsRight(o)
      BY <3>1 DEF InOrder
    <3>4. Pointer!Cardinality(Pointer!References(o)) = Cardinality(Pointer!References(o))
      BY DEF Pointer!Cardinality, Cardinality
    <3>5. ASSUME NEW t \in PointerThreads, o \in DoomedIn(todo[t]) \/ IsNew(t, o)
          PROVE  Pointer!Unreferenced(o)
      <4>1. CASE o \in DoomedIn(todo[t])
        BY <4>1 DEF DoomedIn, Pointer!Unreferenced
      <4>2. CASE IsNew(t, o)
        <5>1. p[t] = o /\ AssigningNew(todo[t], t)
          BY <4>2 DEF IsNew
        <5>2. todo[t] # <<>>
          <6>1. todo[t] \in Seq(PointerOps)
            BY DEF PointerIInv, PointerTypes
          <6>2. PICK x \in Variables \cup Objects, k \in 2 .. 5 :
                  Follows(todo[t], k, NewPlan(t, x))
            BY <5>1 DEF AssigningNew
          <6> QED
            BY <5>1, <6>1, <6>2, NewSteps
        <5> QED
          BY <5>1, <5>2 DEF Pointer!Unreferenced
      <4> QED
        BY <3>5, <4>1, <4>2
    <3> QED
      BY <3>3, <3>4, <3>5 DEF CountIsRight
  <2> QED
    BY <2>1, <2>2 DEF Pointer!CountsAreReferences
<1> QED
  BY <1>1, PointerInvariance, PTL
=============================================================================
