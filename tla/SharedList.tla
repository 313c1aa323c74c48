----------------------------- MODULE SharedList -----------------------------
(***************************************************************************)
(* cSharedList: lists of records of a fixed size in circular buffers that  *)
(* processes share, with a named mutex and a named semaphore that counts   *)
(* the records to be read.  Processes start, attach themselves to a list   *)
(* (the constructor), and end or die at any step, which abandons the       *)
(* mutex; memory and semaphore last as long as a process has them open.    *)
(*                                                                         *)
(* The names of the mutex and of the semaphore are the same for all lists. *)
(* A reader gets the address of its record, and reads it without the lock. *)
(***************************************************************************)
EXTENDS Integers, FiniteSetsExt, SequencesExt

CONSTANTS
  Lists, Processes,
  NbRec,      \* slots of a list
  MaxCount,   \* of the semaphore, 2048 in the code
  MaxPuts,    \* bound on the records put, the n-th of which is n
  MaxStarts,  \* bound on the constructions
  MaxClients, \* bound on the registrations
  NULL

ASSUME SharedListAssumption ==
  /\ NbRec \in Nat \ {0, 1}
  /\ {MaxCount, MaxPuts, MaxStarts, MaxClients} \subseteq Nat
  /\ NULL \notin Lists \cup Processes
  /\ IsFiniteSet(Lists) /\ IsFiniteSet(Processes)

VARIABLES
  list,       \* of each process, or NULL
  pc,
  iw, ir,     \* slots last written and last read
  nbClients,
  rec,        \* the slots, 0 if cleared
  plock,
  psema,
  index,      \* tmpIndexPtr of put
  held,       \* what get has returned, until the process calls it again
  puts, starts,
  \* History variables.
  accepted,   \* records put into each list
  taken,      \* records read or flushed
  uncounted,  \* records whose count has been lost
  mishaps

header == <<iw, ir, nbClients>>
past   == <<accepted, taken, uncounted, mishaps>>
vars   == <<list, pc, header, rec, plock, psema, index, held, puts, starts, past>>

Slots   == 0 .. NbRec - 1
After(i) == (i + 1) % NbRec
Cleared == [i \in Slots |-> 0]

\* The slots of the records to be read, from the oldest.
Pending(l) == [n \in 1 .. (iw[l] - ir[l]) % NbRec |-> (ir[l] + n) % NbRec]
Unread(l)  == [n \in DOMAIN Pending(l) |-> rec[l][Pending(l)[n]]]

UsersOf(l) == {p \in Processes : list[p] = l}

Init ==
  /\ list = [p \in Processes |-> NULL]
  /\ pc = [p \in Processes |-> "idle"]
  /\ iw = [l \in Lists |-> 0] /\ ir = [l \in Lists |-> 0]
  /\ nbClients = [l \in Lists |-> 0]
  /\ rec = [l \in Lists |-> Cleared]
  /\ plock = NULL
  /\ psema = 0
  /\ index = [p \in Processes |-> 0]
  /\ held = [p \in Processes |-> NULL]
  /\ puts = 0 /\ starts = 0
  /\ accepted = [l \in Lists |-> <<>>] /\ taken = [l \in Lists |-> <<>>]
  /\ uncounted = 0
  /\ mishaps = {}

Step(p, from, to) ==
  /\ list[p] # NULL
  /\ pc[p] = from
  /\ pc' = [pc EXCEPT ![p] = to]

Acquire(p) == plock = NULL /\ plock' = p
Release    == plock' = NULL

-----------------------------------------------------------------------------
\* Others have records in the list, or read one, or are in the middle of a call.
InUse(p, l) ==
  \/ iw[l] # ir[l]
  \/ \E q \in UsersOf(l) \ {p} : pc[q] # "idle" \/ held[q] # NULL

\* The constructor sets the header of the list, also of one that is in use:
\* IsCreated says true of any shared memory.
Construct(p, l) ==
  /\ list[p] = NULL
  /\ starts < MaxStarts
  /\ starts' = starts + 1
  /\ list' = [list EXCEPT ![p] = l]
  /\ pc' = [pc EXCEPT ![p] = "fill"]
  /\ iw' = [iw EXCEPT ![l] = 0]
  /\ ir' = [ir EXCEPT ![l] = 0]
  /\ nbClients' = [nbClients EXCEPT ![l] = 0]
  /\ mishaps' = IF InUse(p, l) THEN mishaps \cup {"reset"} ELSE mishaps
  /\ UNCHANGED <<rec, plock, psema, index, held, puts, accepted, taken, uncounted>>

\* ... and clears its records (of the first, what is behind ten bytes).
Fill(p) ==
  /\ Step(p, "fill", "idle")
  /\ LET l == list[p]
     IN  /\ rec' = [rec EXCEPT ![l] = Cleared]
         /\ mishaps' = IF InUse(p, l) THEN mishaps \cup {"reset"} ELSE mishaps
  /\ UNCHANGED <<list, header, plock, psema, index, held, puts, starts, accepted,
                 taken, uncounted>>

\* RegisterClient and UnRegisterClient.
ChangeClients(p) ==
  /\ Step(p, "idle", "idle")
  /\ plock = NULL
  /\ LET l == list[p]
     IN  \E n \in {nbClients[l] + 1, nbClients[l] - 1} :
           /\ n \in 0 .. MaxClients
           /\ nbClients' = [nbClients EXCEPT ![l] = n]
  /\ UNCHANGED <<list, iw, ir, rec, plock, psema, index, held, puts, starts, past>>

\* The process ends.  The memory of a list goes with its last user, the
\* semaphore with the last user of any list.
Exit(p) ==
  /\ list[p] # NULL
  /\ list' = [list EXCEPT ![p] = NULL]
  /\ pc' = [pc EXCEPT ![p] = "idle"]
  /\ held' = [held EXCEPT ![p] = NULL]
  /\ plock' = IF plock = p THEN NULL ELSE plock
  /\ LET l     == list[p]
         last  == UsersOf(l) = {p}
         final == \A q \in Processes \ {p} : list[q] = NULL
     IN  /\ iw' = IF last THEN [iw EXCEPT ![l] = 0] ELSE iw
         /\ ir' = IF last THEN [ir EXCEPT ![l] = 0] ELSE ir
         /\ nbClients' = IF last THEN [nbClients EXCEPT ![l] = 0] ELSE nbClients
         /\ rec' = IF last THEN [rec EXCEPT ![l] = Cleared] ELSE rec
         /\ accepted' = IF last THEN [accepted EXCEPT ![l] = <<>>] ELSE accepted
         /\ taken' = IF last THEN [taken EXCEPT ![l] = <<>>] ELSE taken
         /\ psema' = IF final THEN 0 ELSE psema
         /\ uncounted' = IF final THEN 0
                         ELSE IF pc[p] \in {"copy", "signal", "take"} THEN uncounted + 1
                         ELSE uncounted
         /\ mishaps' = mishaps
              \cup (IF pc[p] = "copy" /\ ~last THEN {"torn record"} ELSE {})
              \cup (IF last /\ ~final /\ (iw[l] # ir[l] \/ pc[p] # "idle")
                    THEN {"left records"} ELSE {})
  /\ UNCHANGED <<index, puts, starts>>

-----------------------------------------------------------------------------
\* put: the writer takes the next slot, unless that is the one read last ...

\* Mutant of Full: the test comes before the index starts again.
Full_BeforeWrap(l) == iw[l] + 1 = ir[l]

Full(l) == After(iw[l]) = ir[l]

\* Mutant of TakeSlot: the record is counted before it is refused.
TakeSlot_CountsRefused(p) ==
  LET l == list[p]
  IN  /\ list[p] # NULL /\ pc[p] = "idle" /\ plock = NULL /\ nbClients[l] > 0
      /\ puts < MaxPuts
      /\ puts' = puts + 1
      /\ IF Full(l)
         THEN /\ psema' = Min({psema + 1, MaxCount})
              /\ UNCHANGED <<pc, plock, iw, index>>
         ELSE /\ Step(p, "idle", "copy")
              /\ Acquire(p)
              /\ iw' = [iw EXCEPT ![l] = After(iw[l])]
              /\ index' = [index EXCEPT ![p] = After(iw[l])]
              /\ UNCHANGED psema
      /\ UNCHANGED <<list, ir, nbClients, rec, held, starts, past>>

TakeSlot(p) ==
  /\ Step(p, "idle", "copy")
  /\ Acquire(p)
  /\ puts < MaxPuts
  /\ puts' = puts + 1
  /\ LET l == list[p]
     IN  /\ nbClients[l] > 0
         /\ ~Full(l)
         /\ iw' = [iw EXCEPT ![l] = After(iw[l])]
         /\ index' = [index EXCEPT ![p] = After(iw[l])]
  /\ UNCHANGED <<list, ir, nbClients, rec, psema, held, starts, past>>

\* ... copies its record there ...
CopyMemory(p) ==
  /\ Step(p, "copy", "signal")
  /\ LET l == list[p]
     IN  /\ rec' = [rec EXCEPT ![l][index[p]] = puts]
         /\ accepted' = [accepted EXCEPT ![l] = Append(@, puts)]
  /\ UNCHANGED <<list, header, plock, psema, index, held, puts, starts, taken, uncounted,
                 mishaps>>

\* ... and counts it, unless the semaphore is at its maximum, and unlocks.
Signal(p) ==
  /\ Step(p, "signal", "idle")
  /\ psema' = Min({psema + 1, MaxCount})
  /\ uncounted' = IF psema = MaxCount THEN uncounted + 1 ELSE uncounted
  /\ Release
  /\ UNCHANGED <<list, header, rec, index, held, puts, starts, accepted, taken, mishaps>>

\* get: the reader waits for a count, and gives up the record it had ...
Wait(p) ==
  /\ Step(p, "idle", "take")
  /\ psema > 0
  /\ psema' = psema - 1
  /\ held' = [held EXCEPT ![p] = NULL]
  /\ UNCHANGED <<list, header, rec, plock, index, puts, starts, past>>

\* SetIndexPtrRd: the oldest record of the list is taken.
Advance(l) ==
  /\ ir' = [ir EXCEPT ![l] = After(ir[l])]
  /\ taken' = [taken EXCEPT ![l] = Append(@, rec[l][After(ir[l])])]
  /\ mishaps' = IF ir[l] = iw[l] THEN mishaps \cup {"foreign count"} ELSE mishaps
  /\ UNCHANGED <<iw, nbClients, accepted, uncounted>>

\* What get returns: a slot, in which there is the next record.
Handed(l, slot) ==
  [slot |-> slot, record |-> rec[l][After(ir[l])], nth |-> Len(taken[l]) + 1]

\* Mutant of Take: the address is that of the slot before.
Take_TooEarly(p) ==
  /\ Step(p, "take", "idle")
  /\ plock = NULL
  /\ LET l == list[p]
     IN  /\ held' = [held EXCEPT ![p] = Handed(l, ir[l])]
         /\ Advance(l)
  /\ UNCHANGED <<list, rec, plock, psema, index, puts, starts>>

\* ... and, under the lock, takes the oldest record: its address is returned.
Take(p) ==
  /\ Step(p, "take", "idle")
  /\ plock = NULL
  /\ LET l == list[p]
     IN  /\ held' = [held EXCEPT ![p] = Handed(l, After(ir[l]))]
         /\ Advance(l)
  /\ UNCHANGED <<list, rec, plock, psema, index, puts, starts>>

\* flush: under the lock, takes records as long as there are counts, and then
\* waits for the next one, which nobody can give as long as it has the lock.
Flush(p) ==
  /\ Step(p, "idle", "flush")
  /\ Acquire(p)
  /\ UNCHANGED <<list, header, rec, psema, index, held, puts, starts, past>>

FlushOne(p) ==
  /\ Step(p, "flush", "flush")
  /\ psema > 0
  /\ psema' = psema - 1
  /\ Advance(list[p])
  /\ UNCHANGED <<list, rec, plock, index, held, puts, starts>>

Next ==
  \E p \in Processes :
    \/ \E l \in Lists : Construct(p, l)
    \/ Fill(p) \/ ChangeClients(p) \/ Exit(p)
    \/ TakeSlot(p) \/ CopyMemory(p) \/ Signal(p)
    \/ Wait(p) \/ Take(p)
    \/ Flush(p) \/ FlushOne(p)

Spec == Init /\ [][Next]_vars

-----------------------------------------------------------------------------
TypeOK ==
  /\ list \in [Processes -> Lists \cup {NULL}]
  /\ pc \in [Processes -> {"idle", "fill", "copy", "signal", "take", "flush"}]
  /\ iw \in [Lists -> Slots] /\ ir \in [Lists -> Slots]
  /\ nbClients \in [Lists -> 0 .. MaxClients]
  /\ rec \in [Lists -> [Slots -> 0 .. MaxPuts]]
  /\ plock \in Processes \cup {NULL}
  /\ psema \in 0 .. MaxCount
  /\ index \in [Processes -> Slots]

\* A list gives back the records put into it, each once and in order, to all
\* its readers together, across the deaths of writers and readers: whenever
\* nobody is at it, what was put is what was taken and then what is in it.  The
\* exceptions are named in mishaps: a constructor that reset a list in use, a
\* writer that died before it had copied, a count that came from another list.
RecordsAccounted ==
  /\ TypeOK
  /\ mishaps = {} /\ plock = NULL =>
       \A l \in Lists : accepted[l] = taken[l] \o Unread(l)

\* The slots of all lists in which there is a record to be read.
UnreadSlots ==
  {s \in Lists \X Slots : \E n \in DOMAIN Pending(s[1]) : s[2] = Pending(s[1])[n]}

\* The semaphore counts the unread records of all lists: those that a writer is
\* about to count or a reader has counted down are added, and so are those
\* whose writer or reader has died in between or that came when the semaphore
\* was at its maximum.  They stay in the list for good.
CountsMatchRecords ==
  mishaps = {} =>
    psema + uncounted
    + Cardinality({p \in Processes : pc[p] \in {"copy", "signal", "take"}})
      = Cardinality(UnreadSlots)

\* The lists and the semaphore they share agree on what is still to be read, and
\* nothing is lost, repeated or reordered in the lists.
ListsAndCountsAgree == RecordsAccounted /\ CountsMatchRecords

\* "On ne permet pas d'overwriter sur les record non encore lu": the record
\* whose address get has returned is not written to, although the reader has no
\* lock, until the next get on the list.
RecordKeptForReader ==
  mishaps = {} =>
    \A p \in Processes :
      held[p] # NULL /\ Len(taken[list[p]]) = held[p].nth =>
        rec[list[p]][held[p].slot] = held[p].record
=============================================================================
