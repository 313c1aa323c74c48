----------------------------- MODULE ThreadLife -----------------------------
(***************************************************************************)
(* cThread: the life of one cThread object, of the Windows threads that    *)
(* its Run creates, and of their handles, which gThreadInstances keeps for *)
(* Join also after the object has deleted itself.                          *)
(*                                                                         *)
(* _isRunning is set by the new thread, not by Run.  Windows threads are   *)
(* numbered in the order they are created, and a thread's handle has the   *)
(* same number.  gThreadInstances is locked in each of its uses, so a use  *)
(* is one action; _isRunning is not protected.                             *)
(***************************************************************************)
EXTENDS Integers, Sequences, FiniteSets

CONSTANTS
  Joiners,
  MaxRuns,     \* bound on the calls of Run
  MaxJoins     \* bound on the calls of Join

VARIABLES
  object,         \* "alive" or "deleted"
  mSelfDestruct,
  isRunning,
  threadHandle,   \* 0 until Run
  instances,      \* the entry of gThreadInstances: <<>> or <<[handle, joinCount]>>
  threads,        \* state of each thread created
  closes,         \* number of times each thread's handle was closed
  pc, waitsOn,    \* of each joiner: where it is, the handle it got
  joins,
  \* History variables.
  returned,       \* of each joiner: what its last Join told it
  mishaps         \* what has gone wrong so far:
                  \*   "orphaned": the object was deleted under a thread of its own
                  \*   "forgotten": a Join timed out and removed the running thread
                  \*   "rerun": Run replaced the entry of a thread being joined

self == <<object, mSelfDestruct, isRunning, threadHandle>>
join == <<pc, waitsOn, joins, returned>>
vars == <<self, instances, threads, closes, join, mishaps>>

Created == DOMAIN threads

Init ==
  /\ object = "alive"
  /\ mSelfDestruct = FALSE
  /\ isRunning = FALSE
  /\ threadHandle = 0
  /\ instances = <<>>
  /\ threads = <<>>
  /\ closes = <<>>
  /\ pc = [j \in Joiners |-> "idle"]
  /\ waitsOn = [j \in Joiners |-> 0]
  /\ joins = 0
  /\ returned = [j \in Joiners |-> "nothing"]
  /\ mishaps = {}

Close(h) == [closes EXCEPT ![h] = @ + 1]

-----------------------------------------------------------------------------
\* The owner of the object.

\* Mutant of Run: the new thread is not put in gThreadInstances.
Run_Unregistered(selfDestruct) ==
  /\ object = "alive"
  /\ ~isRunning
  /\ Len(threads) < MaxRuns
  /\ mSelfDestruct' = selfDestruct
  /\ threads' = Append(threads, "created")
  /\ closes' = Append(closes, 0)
  /\ threadHandle' = Len(threads) + 1
  /\ UNCHANGED <<object, isRunning, instances, join, mishaps>>

\* A handle left by an earlier Run is closed, and its entry replaced.
Run(selfDestruct) ==
  /\ object = "alive"
  /\ ~isRunning
  /\ Len(threads) < MaxRuns
  /\ mSelfDestruct' = selfDestruct
  /\ threads' = Append(threads, "created")
  /\ closes' = Append(IF instances = <<>> THEN closes ELSE Close(instances[1].handle), 0)
  /\ threadHandle' = Len(threads) + 1
  /\ instances' = <<[handle |-> Len(threads) + 1, joinCount |-> 0]>>
  /\ mishaps' = mishaps \cup {x \in {"rerun"} : \E j \in Joiners : pc[j] # "idle"}
  /\ UNCHANGED <<object, isRunning, join>>

\* What Stop leaves of the threads: TerminateThread ends the last one.
Stopped == [threads EXCEPT ![threadHandle] = "exited"]

Stop ==
  /\ object = "alive"
  /\ isRunning
  /\ threads' = Stopped
  /\ isRunning' = FALSE
  /\ UNCHANGED <<object, mSelfDestruct, threadHandle, instances, closes, join,
                 mishaps>>

\* Mutant of Unregistered: the entry is removed whoever is joining.
Unregistered_WhileJoining ==
  IF instances # <<>>
  THEN instances' = <<>> /\ closes' = Close(threadHandle)
  ELSE UNCHANGED <<instances, closes>>

\* The destructor's use of gThreadInstances.
Unregistered ==
  IF instances # <<>> /\ instances[1].joinCount = 0
  THEN instances' = <<>> /\ closes' = Close(threadHandle)
  ELSE UNCHANGED <<instances, closes>>

\* The object is gone and left a thread that isRunning did not show.
Orphaned ==
  mishaps' = mishaps \cup
    {x \in {"orphaned"} : \E h \in Created : threads'[h] \in {"created", "running"}}

\* The owner deletes an object that does not do so itself.
Delete ==
  /\ object = "alive"
  /\ ~mSelfDestruct
  /\ object' = "deleted"
  /\ threads' = IF isRunning THEN Stopped ELSE threads
  /\ isRunning' = FALSE
  /\ Unregistered
  /\ Orphaned
  /\ UNCHANGED <<mSelfDestruct, threadHandle, join>>

-----------------------------------------------------------------------------
\* The threads: _callback.

Start(h) ==
  /\ threads[h] = "created"
  /\ threads' = [threads EXCEPT ![h] = "running"]
  /\ isRunning' = TRUE
  /\ UNCHANGED <<object, mSelfDestruct, threadHandle, instances, closes, join,
                 mishaps>>

ProcReturns(h) ==
  /\ threads[h] = "running"
  /\ threads' = [threads EXCEPT ![h] = "returned"]
  /\ isRunning' = FALSE
  /\ UNCHANGED <<object, mSelfDestruct, threadHandle, instances, closes, join,
                 mishaps>>

\* The thread deletes the object if it was told to, and ends afterwards.
SelfDestruct(h) ==
  /\ threads[h] = "returned"
  /\ mSelfDestruct /\ object = "alive"
  /\ object' = "deleted"
  /\ threads' = [(IF isRunning THEN Stopped ELSE threads) EXCEPT ![h] = "ending"]
  /\ isRunning' = FALSE
  /\ Unregistered
  /\ Orphaned
  /\ UNCHANGED <<mSelfDestruct, threadHandle, join>>

Exit(h) ==
  /\ \/ threads[h] = "ending"
     \/ threads[h] = "returned" /\ ~mSelfDestruct
  /\ threads' = [threads EXCEPT ![h] = "exited"]
  /\ UNCHANGED <<self, instances, closes, join, mishaps>>

-----------------------------------------------------------------------------
\* Join.

\* A thread that is not in gThreadInstances has finished.  Nobody joins an
\* object that was never run.
JoinEnter(j) ==
  /\ pc[j] = "idle"
  /\ Created # {}
  /\ joins < MaxJoins
  /\ joins' = joins + 1
  /\ IF instances # <<>>
     THEN /\ instances' = [instances EXCEPT ![1].joinCount = @ + 1]
          /\ waitsOn' = [waitsOn EXCEPT ![j] = instances[1].handle]
          /\ pc' = [pc EXCEPT ![j] = "wait"]
          /\ returned' = [returned EXCEPT ![j] = "nothing"]
     ELSE /\ returned' = [returned EXCEPT ![j] = "finished"]
          /\ UNCHANGED <<instances, waitsOn, pc>>
  /\ UNCHANGED <<self, threads, closes, mishaps>>

\* The wait ends with the thread, or times out.
JoinWaitEnds(j) ==
  /\ pc[j] = "wait"
  /\ \/ /\ threads[waitsOn[j]] = "exited"
        /\ returned' = [returned EXCEPT ![j] = "finished"]
     \/ returned' = [returned EXCEPT ![j] = "timeout"]
  /\ pc' = [pc EXCEPT ![j] = "leave"]
  /\ UNCHANGED <<self, instances, threads, closes, waitsOn, joins, mishaps>>

LastJoin == instances # <<>> /\ instances[1].joinCount = 1

\* The last join closes the handle that the entry has now, whatever its wait
\* ended with.
JoinLeave(j) ==
  /\ pc[j] = "leave"
  /\ IF LastJoin
     THEN instances' = <<>> /\ closes' = Close(instances[1].handle)
     ELSE instances' = [i \in DOMAIN instances |-> [instances[i] EXCEPT !.joinCount = @ - 1]]
          /\ UNCHANGED closes
  /\ pc' = [pc EXCEPT ![j] = "idle"]
  /\ waitsOn' = [waitsOn EXCEPT ![j] = 0]
  /\ mishaps' = mishaps \cup
       {x \in {"forgotten"} : LastJoin /\ threads[instances[1].handle] # "exited"}
  /\ UNCHANGED <<self, threads, joins, returned>>

-----------------------------------------------------------------------------
Thread(h) == Start(h) \/ ProcReturns(h) \/ SelfDestruct(h) \/ Exit(h)

Next ==
  \/ \E b \in BOOLEAN : Run(b)
  \/ Stop \/ Delete
  \/ \E h \in Created : Thread(h)
  \/ \E j \in Joiners : JoinEnter(j) \/ JoinWaitEnds(j) \/ JoinLeave(j)

Spec == Init /\ [][Next]_vars

-----------------------------------------------------------------------------
\* Types; the entry belongs to the last thread created, and counts the joins
\* that are in progress.
TypeOK ==
  /\ object \in {"alive", "deleted"}
  /\ isRunning \in BOOLEAN /\ mSelfDestruct \in BOOLEAN
  /\ threads \in Seq({"created", "running", "returned", "ending", "exited"})
  /\ mishaps \subseteq {"orphaned", "forgotten", "rerun"}
  /\ instances # <<>> =>
       /\ instances[1].handle = threadHandle
       /\ "rerun" \notin mishaps =>
            instances[1].joinCount = Cardinality({j \in Joiners : pc[j] # "idle"})

\* A handle is closed once, and never while a Join still uses it; and whoever
\* comes last, the destructor or a Join, closes it and removes the entry.  The
\* exception is that Run replaced the entry of a thread being joined: "Thread
\* hasn't been joined last time: close its previous handle" does not look at the
\* joins in progress.
HandlesClosedOnce ==
  /\ TypeOK
  /\ "rerun" \notin mishaps =>
       /\ \A h \in Created : closes[h] <= 1
       /\ \A j \in Joiners : pc[j] # "idle" => closes[waitsOn[j]] = 0
       /\ object = "deleted" /\ (\A j \in Joiners : pc[j] = "idle")
            => instances = <<>> /\ \A h \in Created : closes[h] = 1

\* "Thread has already finished": a Join that says so is right, ThreadProc has
\* returned or was terminated, unless the object was deleted under a thread
\* that isRunning did not show, or a Join that timed out was the last one and
\* removed the thread from gThreadInstances, or Run replaced its entry.
JoinMeansFinished ==
  [][\A j \in Joiners : returned[j] # "finished" /\ returned'[j] = "finished"
       => mishaps # {} \/ threads[threadHandle] \notin {"created", "running"}]_vars
=============================================================================
