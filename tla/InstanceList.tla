---------------------------- MODULE InstanceList ----------------------------
(***************************************************************************)
(* cInstanceList: a std::list of pointers with a lock that each operation  *)
(* holds from its beginning to its end, so each is one action.  One thread *)
(* goes through the list with GetFirst and GetNext, which know their place *)
(* by the instance and not by a position, while the others change it.      *)
(***************************************************************************)
EXTENDS Naturals, Sequences

CONSTANTS
  Instances,
  MaxLength,    \* bound on the length of the list
  MaxVisits,    \* bound on the length of an iteration
  NULL

VARIABLES
  mList,
  iteration,    \* "none", "going", "complete" (there was no further one) or "cut"
  current,      \* the instance GetFirst or GetNext returned last, or NULL
  \* History variables.
  visited,      \* the instances the iteration has returned
  kept,         \* the instances it found in the list that no one has removed since
  disturbances  \* since it began: "twice" if an instance was twice in the list,
                \* "moved" if the current one was removed and added again

Lists == INSTANCE SequencesExt

walk == <<iteration, current, visited>>
vars == <<mList, walk, kept, disturbances>>

Init ==
  /\ mList = <<>>
  /\ iteration = "none"
  /\ current = NULL
  /\ visited = <<>>
  /\ kept = {}
  /\ disturbances = {}

Add(pInst) ==
  /\ Len(mList) < MaxLength
  /\ mList' = Append(mList, pInst)
  /\ disturbances' = disturbances
       \cup {d \in {"twice"} : Lists!Contains(mList, pInst)}
       \cup {d \in {"moved"} : pInst = current /\ pInst \notin kept}
  /\ UNCHANGED <<walk, kept>>

\* The first occurrence is removed.
Remove(pInst) ==
  /\ Lists!Contains(mList, pInst)
  /\ mList' = Lists!RemoveFirst(mList, pInst)
  /\ kept' = kept \ {pInst}
  /\ UNCHANGED <<walk, disturbances>>

GetFirst ==
  /\ IF mList = <<>>
     THEN /\ iteration' = "complete"
          /\ current' = NULL
          /\ visited' = <<>>
     ELSE /\ iteration' = "going"
          /\ current' = Head(mList)
          /\ visited' = <<Head(mList)>>
  /\ kept' = Lists!ToSet(mList)
  /\ disturbances' = {d \in {"twice"} : ~Lists!IsInjective(mList)}
  /\ UNCHANGED mList

\* The position of the first occurrence, or 0.
Position(pInst) ==
  IF Lists!Contains(mList, pInst)
  THEN CHOOSE i \in DOMAIN mList :
         mList[i] = pInst /\ \A j \in 1 .. i - 1 : mList[j] # pInst
  ELSE 0

\* Mutant of GetNext: without the current instance it starts again.
GetNext_Restarts ==
  /\ iteration = "going"
  /\ Len(visited) < MaxVisits
  /\ LET next == Position(current) + 1
     IN IF next > Len(mList)
        THEN iteration' = "complete" /\ UNCHANGED <<current, visited>>
        ELSE /\ current' = mList[next]
             /\ visited' = Append(visited, mList[next])
             /\ UNCHANGED iteration
  /\ UNCHANGED <<mList, kept, disturbances>>

\* The instance that follows the first occurrence of the current one.
GetNext ==
  /\ iteration = "going"
  /\ Len(visited) < MaxVisits
  /\ LET at == Position(current)
     IN IF at \in 1 .. Len(mList) - 1
        THEN /\ current' = mList[at + 1]
             /\ visited' = Append(visited, mList[at + 1])
             /\ UNCHANGED iteration
        ELSE /\ iteration' = IF at = 0 THEN "cut" ELSE "complete"
             /\ UNCHANGED <<current, visited>>
  /\ UNCHANGED <<mList, kept, disturbances>>

-----------------------------------------------------------------------------
Next ==
  \/ \E pInst \in Instances : Add(pInst) \/ Remove(pInst)
  \/ GetFirst \/ GetNext

Spec == Init /\ [][Next]_vars

-----------------------------------------------------------------------------
TypeOK ==
  /\ mList \in Seq(Instances)
  /\ iteration \in {"none", "going", "complete", "cut"}
  /\ current \in Instances \cup {NULL}
  /\ visited \in Seq(Instances)
  /\ kept \in SUBSET Instances
  /\ disturbances \subseteq {"twice", "moved"}

Visits(pInst) == {i \in DOMAIN visited : visited[i] = pInst}

\* As long as no instance is twice in the list, an iteration visits each one that
\* was there when it began and that no one removed once at most; it misses none
\* unless its current instance was removed: then it ends, or goes on from the place
\* where that one was added again.
ListIterationComplete ==
  /\ TypeOK
  /\ "twice" \notin disturbances =>
       /\ \A pInst \in kept :
            /\ \A i, j \in Visits(pInst) : i = j
            /\ "moved" \notin disturbances /\ iteration = "complete" =>
                 Visits(pInst) # {}
       /\ iteration = "cut" => current \notin kept
=============================================================================
