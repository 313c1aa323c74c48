------------------------------- MODULE Tickets -------------------------------
(***************************************************************************)
(* cTicketPad and cTicketOutlet: numbers that are to be unique, counted in *)
(* memory and kept in a file.  One name, so one file and one pad for each  *)
(* outlet; the outlet is created by the first GetTicketPad of a process.   *)
(*                                                                         *)
(* Processes share the file and may die at any time; a thread then begins  *)
(* anew with the next process.  lockTicketPad is held over a getTicket.    *)
(***************************************************************************)
EXTENDS Naturals

CONSTANTS
  Threads, ProcessOf,  \* the process each thread belongs to
  MaxValue,            \* the greatest ticket, 2147483647 in the code
  FirstValues,         \* what the file may hold at first, 0 for no number
  MaxOutlets, MaxRounds, MaxDeaths  \* bounds on what is explored

VARIABLES
  file,             \* the number in the file, 0 if there is none
  ourTicketOutlet,  \* of each process: its outlet, 0 for NULL
  outlets,          \* of each outlet: the process it is in, 0 if there is none
  bFirstReading, TicketNumber,  \* of each outlet's pad
  lockTicketPad,    \* of each pad: the thread that is in getTicket, or 0
  pc,               \* of each thread
  pad,              \* of each thread: the pad it was given, or 0
  deaths,
  \* History variables.
  rounds,           \* number of times that MaxValue was passed
  last,             \* <<round, ticket>> of the last ticket issued
  repeated,         \* a ticket was not after the one before
  mishaps           \* "two pads": a pad read the file while another one counts
                    \* "not written": a number did not get into the file

Processes == {ProcessOf[t] : t \in Threads}
Outlets == 1 .. MaxOutlets

\* What is assumed of the constants: 0 stands for no thread and no process.
Parameters ==
  /\ MaxValue \in Nat \ {0}
  /\ FirstValues \subseteq 0 .. MaxValue
  /\ MaxOutlets \in Nat /\ MaxDeaths \in Nat
  /\ 0 \notin Threads /\ 0 \notin Processes

heap == <<ourTicketOutlet, outlets>>
counting == <<bFirstReading, TicketNumber, lockTicketPad>>
history == <<rounds, last, repeated, mishaps>>
vars == <<file, heap, counting, pc, pad, deaths, history>>

Init ==
  /\ file \in FirstValues
  /\ ourTicketOutlet = [p \in Processes |-> 0]
  /\ outlets = [o \in Outlets |-> 0]
  /\ bFirstReading = [o \in Outlets |-> TRUE]
  /\ TicketNumber = [o \in Outlets |-> 0]
  /\ lockTicketPad = [o \in Outlets |-> 0]
  /\ pc = [t \in Threads |-> "idle"]
  /\ pad = [t \in Threads |-> 0]
  /\ deaths = 0
  /\ rounds = 0
  /\ last = <<0, 0>>
  /\ repeated = FALSE
  /\ mishaps = {}

\* The run stops at a mishap: numbers may then be issued twice.
Goto(t, from, to) ==
  /\ mishaps = {}
  /\ pc[t] = from
  /\ pc' = [pc EXCEPT ![t] = to]

-----------------------------------------------------------------------------
(* GetTicketPad, which no lock protects.                                   *)

TestOutlet(t) ==
  /\ pad[t] = 0
  /\ Goto(t, "idle", IF ourTicketOutlet[ProcessOf[t]] = 0 THEN "create"
                                                          ELSE "use")
  /\ UNCHANGED <<file, heap, counting, pad, deaths, history>>

CreateOutlet(t) ==
  /\ Goto(t, "create", "use")
  /\ \E o \in Outlets :
       /\ outlets[o] = 0 /\ \A n \in 1 .. o - 1 : outlets[n] # 0
       /\ outlets' = [outlets EXCEPT ![o] = ProcessOf[t]]
       /\ ourTicketOutlet' = [ourTicketOutlet EXCEPT ![ProcessOf[t]] = o]
  /\ UNCHANGED <<file, counting, pad, deaths, history>>

\* ourTicketOutlet is read again.  The outlet has one pad for the name.
UseOutlet(t) ==
  /\ Goto(t, "use", "idle")
  /\ pad' = [pad EXCEPT ![t] = ourTicketOutlet[ProcessOf[t]]]
  /\ UNCHANGED <<file, heap, counting, deaths, history>>

-----------------------------------------------------------------------------
(* getTicket.                                                              *)

\* Pads that have read the file.
Counting == {o \in Outlets : ~bFirstReading[o]}

\* getConfigKey: a number that is not positive is replaced by 1.
getConfigKey == IF file = 0 THEN 1 ELSE file

\* Mutant of ReadFile: the pad is not locked.
ReadFile_NoLock(t) ==
  /\ pad[t] # 0
  /\ Goto(t, "idle", "count")
  /\ IF bFirstReading[pad[t]]
     THEN /\ TicketNumber' = [TicketNumber EXCEPT ![pad[t]] = getConfigKey]
          /\ bFirstReading' = [bFirstReading EXCEPT ![pad[t]] = FALSE]
          /\ mishaps' = mishaps \cup
               (IF Counting = {} THEN {} ELSE {"two pads"})
     ELSE UNCHANGED <<TicketNumber, bFirstReading, mishaps>>
  /\ UNCHANGED <<file, heap, lockTicketPad, pad, deaths, rounds, last,
                 repeated>>

\* The pad is locked, and the file is read the first time.
ReadFile(t) ==
  /\ pad[t] # 0
  /\ Goto(t, "idle", "count")
  /\ lockTicketPad[pad[t]] = 0
  /\ lockTicketPad' = [lockTicketPad EXCEPT ![pad[t]] = t]
  /\ IF bFirstReading[pad[t]]
     THEN /\ TicketNumber' = [TicketNumber EXCEPT ![pad[t]] = getConfigKey]
          /\ bFirstReading' = [bFirstReading EXCEPT ![pad[t]] = FALSE]
          /\ mishaps' = mishaps \cup
               (IF Counting = {} THEN {} ELSE {"two pads"})
     ELSE UNCHANGED <<TicketNumber, bFirstReading, mishaps>>
  /\ UNCHANGED <<file, heap, pad, deaths, rounds, last, repeated>>

Before(a, b) == a[1] < b[1] \/ (a[1] = b[1] /\ a[2] < b[2])

\* Mutant of Count: it begins anew one too late.
Count_Late(t) ==
  /\ Goto(t, "count", "write")
  /\ rounds < MaxRounds \/ TicketNumber[pad[t]] < MaxValue
  /\ LET n == TicketNumber[pad[t]]
     IN /\ TicketNumber' = [TicketNumber EXCEPT
                              ![pad[t]] = IF n > MaxValue THEN 1 ELSE n + 1]
        /\ rounds' = IF n > MaxValue THEN rounds + 1 ELSE rounds
  /\ UNCHANGED <<file, heap, bFirstReading, lockTicketPad, pad, deaths, last,
                 repeated, mishaps>>

\* The next number; after MaxValue comes 1.
Count(t) ==
  /\ Goto(t, "count", "write")
  /\ rounds < MaxRounds \/ TicketNumber[pad[t]] < MaxValue
  /\ LET n == TicketNumber[pad[t]]
     IN /\ TicketNumber' = [TicketNumber EXCEPT
                              ![pad[t]] = IF n >= MaxValue THEN 1 ELSE n + 1]
        /\ rounds' = IF n >= MaxValue THEN rounds + 1 ELSE rounds
  /\ UNCHANGED <<file, heap, bFirstReading, lockTicketPad, pad, deaths, last,
                 repeated, mishaps>>

\* Mutant of setConfigKey: the number is written when it has been returned.
setConfigKey_Later(t) ==
  /\ Goto(t, "write", "return")
  /\ UNCHANGED <<file, heap, counting, pad, deaths, history>>

\* It returns 0 when it fails.
WritePrivateProfileStr(number) ==
  \/ file' = number /\ UNCHANGED mishaps
  \/ mishaps' = mishaps \cup {"not written"} /\ UNCHANGED file

\* The number is written; setConfigKey takes a failure for a success.
setConfigKey(t) ==
  /\ Goto(t, "write", "return")
  /\ WritePrivateProfileStr(TicketNumber[pad[t]])
  /\ UNCHANGED <<heap, counting, pad, deaths, rounds, last, repeated>>

Return(t) ==
  /\ Goto(t, "return", "idle")
  /\ last' = <<rounds, TicketNumber[pad[t]]>>
  /\ repeated' = (repeated \/ ~Before(last, last'))
  /\ lockTicketPad' = [lockTicketPad EXCEPT ![pad[t]] = 0]
  /\ UNCHANGED <<file, heap, bFirstReading, TicketNumber, pad, deaths, rounds,
                 mishaps>>

\* A process dies, its memory with it, and is started again.
Die(p) ==
  /\ mishaps = {}
  /\ deaths < MaxDeaths
  /\ deaths' = deaths + 1
  /\ LET lost(f, init) == [o \in Outlets |-> IF outlets[o] = p THEN init
                                                              ELSE f[o]]
     IN /\ outlets' = lost(outlets, 0)
        /\ bFirstReading' = lost(bFirstReading, TRUE)
        /\ TicketNumber' = lost(TicketNumber, 0)
        /\ lockTicketPad' = lost(lockTicketPad, 0)
  /\ ourTicketOutlet' = [ourTicketOutlet EXCEPT ![p] = 0]
  /\ pc' = [t \in Threads |-> IF ProcessOf[t] = p THEN "idle" ELSE pc[t]]
  /\ pad' = [t \in Threads |-> IF ProcessOf[t] = p THEN 0 ELSE pad[t]]
  /\ UNCHANGED <<file, history>>

Next ==
  \/ \E t \in Threads :
       \/ TestOutlet(t) \/ CreateOutlet(t) \/ UseOutlet(t)
       \/ ReadFile(t) \/ Count(t) \/ setConfigKey(t) \/ Return(t)
  \/ \E p \in Processes : Die(p)

Spec == Init /\ [][Next]_vars

-----------------------------------------------------------------------------
TypeOK ==
  /\ file \in 0 .. MaxValue
  /\ ourTicketOutlet \in [Processes -> 0 .. MaxOutlets]
  /\ outlets \in [Outlets -> Processes \cup {0}]
  /\ bFirstReading \in [Outlets -> BOOLEAN]
  /\ TicketNumber \in [Outlets -> 0 .. MaxValue]
  /\ lockTicketPad \in [Outlets -> Threads \cup {0}]
  /\ pc \in [Threads -> {"idle", "create", "use", "count", "write", "return"}]
  /\ pad \in [Threads -> 0 .. MaxOutlets]
  /\ deaths \in 0 .. MaxDeaths
  /\ rounds \in Nat
  /\ last \in Nat \X (0 .. MaxValue)
  /\ repeated \in BOOLEAN
  /\ mishaps \subseteq {"two pads", "not written"}

\* No ticket is issued twice until the numbers begin anew, across threads and the
\* death of processes at any point, unless two pads counted at a time or a number
\* was not written; and what the file holds, from which the next process counts,
\* is then never behind the last ticket issued.
TicketsUnique ==
  /\ TypeOK
  /\ mishaps = {} => ~repeated
  /\ mishaps = {} /\ last[2] > 0 =>
       file = last[2] \/ Before(last, <<rounds, file>>)
=============================================================================
