----------------------------- MODULE MonitorPVFC -----------------------------
(***************************************************************************)
(* MonitorPVFC: a thread that looks for the window of a pure virtual       *)
(* function call from time to time, and ends the process if there is one.  *)
(* One thread of the application starts and stops it; a cThread object is  *)
(* run for it, whose isRunning the new thread sets (see ThreadLife).       *)
(* Threads are numbered in the order in which they are created.            *)
(***************************************************************************)
EXTENDS Naturals, Sequences

CONSTANT MaxRuns    \* bound on the threads

VARIABLES
  mTerminate,
  mWaitEvent,   \* the auto-reset event
  isRunning,
  threads,      \* of each thread created: where it is
  entry,        \* the thread in gThreadInstances, 0 for none
  stopping,     \* StopMonitorForPVFC: "no", "signal" or "join"
  window,       \* the window is shown
  exited,       \* the process has ended
  \* History variables.
  started,      \* StartMonitorForPVFC returned true, and no Stop after it
  twice         \* it did so again before its thread had begun

control == <<mTerminate, mWaitEvent, stopping, started>>
vars == <<control, isRunning, threads, entry, window, exited, twice>>

Init ==
  /\ mTerminate = FALSE
  /\ mWaitEvent = FALSE
  /\ isRunning = FALSE
  /\ threads = <<>>
  /\ entry = 0
  /\ stopping = "no"
  /\ window = FALSE
  /\ exited = FALSE
  /\ started = FALSE
  /\ twice = FALSE

-----------------------------------------------------------------------------
(* The application.  Neither call does anything when it returns false.     *)

StartMonitorForPVFC ==
  /\ ~exited
  /\ stopping = "no"
  /\ ~isRunning
  /\ Len(threads) < MaxRuns
  /\ threads' = Append(threads, "created")
  /\ entry' = Len(threads) + 1
  /\ started' = TRUE
  /\ twice' = (twice \/ \E h \in DOMAIN threads : threads[h] = "created")
  /\ UNCHANGED <<mTerminate, mWaitEvent, isRunning, stopping, window, exited>>

StopMonitorForPVFC ==
  /\ ~exited
  /\ stopping = "no"
  /\ isRunning
  /\ mTerminate' = TRUE
  /\ stopping' = "signal"
  /\ UNCHANGED <<mWaitEvent, isRunning, threads, entry, window, exited, started,
                 twice>>

\* Mutant of Signal: only a thread that waits is woken.
Signal_Pulse ==
  /\ ~exited
  /\ stopping = "signal"
  /\ mWaitEvent' = \E h \in DOMAIN threads : threads[h] = "wait"
  /\ stopping' = "join"
  /\ UNCHANGED <<mTerminate, isRunning, threads, entry, window, exited, started,
                 twice>>

Signal ==
  /\ ~exited
  /\ stopping = "signal"
  /\ mWaitEvent' = TRUE
  /\ stopping' = "join"
  /\ UNCHANGED <<mTerminate, isRunning, threads, entry, window, exited, started,
                 twice>>

\* Mutant of Join: it does not wait.
Join_NoWait ==
  /\ ~exited
  /\ stopping = "join"
  /\ entry' = 0
  /\ stopping' = "no"
  /\ started' = FALSE
  /\ UNCHANGED <<mTerminate, mWaitEvent, isRunning, threads, window, exited, twice>>

\* The thread joined is the last one created.
Join ==
  /\ ~exited
  /\ stopping = "join"
  /\ entry # 0 => threads[entry] = "exited"
  /\ entry' = 0
  /\ stopping' = "no"
  /\ started' = FALSE
  /\ UNCHANGED <<mTerminate, mWaitEvent, isRunning, threads, window, exited, twice>>

-----------------------------------------------------------------------------
(* The thread.                                                             *)

Goes(h, from, to) ==
  /\ ~exited
  /\ threads[h] = from
  /\ threads' = [threads EXCEPT ![h] = to]
  /\ UNCHANGED <<mTerminate, stopping, started, entry, window, twice>>

Begins(h) ==
  /\ Goes(h, "created", "top")
  /\ isRunning' = TRUE
  /\ UNCHANGED <<mWaitEvent, exited>>

GoesOn(h) ==
  /\ ~mTerminate
  /\ Goes(h, "top", "check")
  /\ UNCHANGED <<mWaitEvent, isRunning, exited>>

Returns(h) ==
  /\ mTerminate
  /\ Goes(h, "top", "returned")
  /\ isRunning' = FALSE
  /\ UNCHANGED <<mWaitEvent, exited>>

CheckForPVFC(h) ==
  /\ Goes(h, "check", "wait")
  /\ exited' = window
  /\ UNCHANGED <<mWaitEvent, isRunning>>

\* Wait returns with the event, or after mFrequencyInSeconds.
WaitEnds(h) ==
  /\ Goes(h, "wait", "top")
  /\ mWaitEvent' \in {mWaitEvent, FALSE}
  /\ mWaitEvent => ~mWaitEvent'
  /\ UNCHANGED <<isRunning, exited>>

Ends(h) ==
  /\ Goes(h, "returned", "exited")
  /\ UNCHANGED <<mWaitEvent, isRunning, exited>>

WindowShows ==
  /\ ~exited
  /\ ~window
  /\ window' = TRUE
  /\ UNCHANGED <<control, isRunning, threads, entry, exited, twice>>

-----------------------------------------------------------------------------
Next ==
  \/ StartMonitorForPVFC \/ StopMonitorForPVFC \/ Signal \/ Join
  \/ WindowShows
  \/ \E h \in DOMAIN threads :
       \/ Begins(h) \/ GoesOn(h) \/ Returns(h)
       \/ CheckForPVFC(h) \/ WaitEnds(h) \/ Ends(h)

Spec == Init /\ [][Next]_vars

-----------------------------------------------------------------------------
TypeOK ==
  /\ mTerminate \in BOOLEAN /\ mWaitEvent \in BOOLEAN /\ isRunning \in BOOLEAN
  /\ threads \in
       Seq({"created", "top", "check", "wait", "returned", "exited"})
  /\ entry \in 0 .. Len(threads)
  /\ stopping \in {"no", "signal", "join"}

\* The thread has left ThreadProc.
Over(h) == threads[h] \in {"returned", "exited"}

\* Unless the monitor was started twice before its thread began: a Stop never waits
\* for a period of the monitor, for its signal is not lost whatever the thread is
\* doing; no thread monitors when it has returned, and never more than one does.
StopEndsMonitoring ==
  /\ TypeOK
  /\ ~twice =>
       /\ stopping = "join" =>
            \A h \in DOMAIN threads : threads[h] = "wait" => mWaitEvent
       /\ ~started => \A h \in DOMAIN threads : Over(h)
       /\ \A h, i \in DOMAIN threads : Over(h) \/ Over(i) \/ h = i

\* "This function starts a thread that will monitor": from a Start that returned true
\* to the Stop there is a thread that goes on monitoring.
StartedMonitors ==
  started /\ stopping = "no" =>
    \E h \in DOMAIN threads : ~Over(h)
=============================================================================
