----------------------------- MODULE TimerClock -----------------------------
(***************************************************************************)
(* cTimerManager::ThreadProc: when does the timer thread pulse, given that *)
(* GetTickCount and its own deadline are unsigned numbers of Width bits    *)
(* that wrap (every 49.7 days for 32 bits)?                                *)
(*                                                                         *)
(* now and ticker are the true times; the code only sees them modulo       *)
(* 2^Width.  Sleep returns at or after the time asked for, and a Pulse, or *)
(* the scheduler, may take time.                                           *)
(***************************************************************************)
EXTENDS Integers

CONSTANTS
  Width,      \* bits of a DWORD
  Precision,  \* mnPrecisionMs
  MaxDelay,   \* bound on what a Sleep overshoots and a Pulse takes
  MaxTime     \* bound on the time explored

ASSUME ClockAssumption ==
  /\ Width \in Nat /\ MaxDelay \in Nat /\ MaxTime \in Nat
  /\ Precision \in Nat \ {0}
  /\ Precision + MaxDelay < 2^Width

VARIABLES
  now,        \* the true time
  ticker,     \* the true time of the next pulse
  bOverflow,
  nSleepTime, \* what the last Sleep was asked for
  pc          \* "top" of the outer loop, "wait" for the inner one, "pulse"

vars == <<now, ticker, bOverflow, nSleepTime, pc>>

DWORD(x) == x % 2^Width

Init ==
  /\ now \in 0 .. 2^Width - 1
  /\ ticker = now + Precision
  /\ bOverflow = FALSE
  /\ nSleepTime = 0
  /\ pc = "top"

\* Mutant of DetectOverflow: the wrap of the deadline is not noticed.
DetectOverflow_Never ==
  /\ pc = "top"
  /\ pc' = "wait"
  /\ UNCHANGED <<now, ticker, bOverflow, nSleepTime>>

\* ticker - mnPrecisionMs > ticker: the last increment wrapped the deadline.
DetectOverflow ==
  /\ pc = "top"
  /\ bOverflow' = (bOverflow \/ DWORD(ticker - Precision) > DWORD(ticker))
  /\ pc' = "wait"
  /\ UNCHANGED <<now, ticker, nSleepTime>>

\* Time passes in Sleep(ms), for ms or somewhat longer.
Sleep(ms) ==
  /\ now + ms <= MaxTime
  /\ nSleepTime' = ms
  /\ now' \in now + ms .. now + ms + MaxDelay

\* Mutant of WaitForTick: the clock is read again to compute the sleep.
WaitForTick_RereadsClock ==
  /\ pc = "wait"
  /\ bOverflow \/ DWORD(ticker) > DWORD(now)
  /\ \E d \in 0 .. MaxDelay :
       Sleep(IF bOverflow THEN Precision ELSE DWORD(ticker - (now + d)))
  /\ bOverflow' = FALSE
  /\ UNCHANGED <<ticker, pc>>

\* With bOverflow set the thread sleeps one period without looking at the
\* clock, otherwise for what is left until the deadline.
WaitForTick ==
  /\ pc = "wait"
  /\ bOverflow \/ DWORD(ticker) > DWORD(now)
  /\ Sleep(IF bOverflow THEN Precision ELSE DWORD(ticker) - DWORD(now))
  /\ bOverflow' = FALSE
  /\ UNCHANGED <<ticker, pc>>

TickDue ==
  /\ pc = "wait"
  /\ ~bOverflow
  /\ DWORD(ticker) <= DWORD(now)
  /\ pc' = "pulse"
  /\ UNCHANGED <<now, ticker, bOverflow, nSleepTime>>

\* The next deadline, then Pulse.
Pulse ==
  /\ pc = "pulse"
  /\ ticker' = ticker + Precision
  /\ now' \in now .. now + MaxDelay
  /\ pc' = "top"
  /\ UNCHANGED <<bOverflow, nSleepTime>>

Next == DetectOverflow \/ WaitForTick \/ TickDue \/ Pulse

Spec == Init /\ [][Next]_vars

-----------------------------------------------------------------------------
TypeOK ==
  /\ now \in Nat
  /\ ticker \in Nat
  /\ bOverflow \in BOOLEAN
  /\ nSleepTime \in 0 .. 2^Width - 1
  /\ pc \in {"top", "wait", "pulse"}

\* Pulse is never called before its true deadline, across any wrap of the
\* clock or of the deadline; and the deadline is at most one period ahead of the
\* true time, so that timers keep their pace after a late pulse.
NeverPulsesEarly ==
  /\ TypeOK
  /\ ticker <= now + Precision
  /\ pc = "pulse" => ticker <= now

\* A sleep longer than a period has one cause: GetTickCount wrapped while the
\* deadline, which is before the wrap, had not been served yet.
LongSleepNeedsMissedWrap ==
  [][nSleepTime' > Precision /\ nSleepTime' # nSleepTime
       => ticker < now /\ ticker \div 2^Width < now \div 2^Width]_vars

\* The thread pulses at its deadlines across the wraps of the clock: never
\* before one, and late beyond a period in a single case.
PulsesAtDeadlines == []NeverPulsesEarly /\ LongSleepNeedsMissedWrap
=============================================================================
